---- MODULE Spec2Model ----
(***************************************************************************)
(* A model of the Clove agent kernel: the scoped key-value state store     *)
(* (kernel/state_store.cpp), the STORE/FETCH/DELETE/KEYS handlers          *)
(* (kernel/syscalls/state.cpp), the event bus (kernel/event_bus.cpp) and   *)
(* the REGISTER/SEND/RECV handlers (kernel/syscalls/ipc.cpp).              *)
(*                                                                         *)
(* Strings are TLA+ strings; std::string operations (find, substr, +) are  *)
(* modelled with Len, SubSeq and \o.  std::optional<T> is a set with at    *)
(* most one element.  A JSON payload is a record of optional fields.       *)
(***************************************************************************)
EXTENDS Integers, Sequences, FiniteSets, TLC

VARIABLES
    store_,          \* StateStore::store_ : physical key -> StoredValue
    now,             \* std::chrono::steady_clock::now(), in seconds
    subscriptions_,  \* EventBus::subscriptions_ : agent id -> set of event types
    queues_,         \* EventBus::queues_ : agent id -> queue of KernelEvent
    agent_names_,         \* name registry: name -> agent id
    agent_ids_to_names_,  \* name registry: agent id -> name
    agent_mailboxes_,     \* agent id -> queue of IPCMessage
    sent_log,        \* per recipient, the messages enqueued so far, in order
    recv_log,        \* per recipient, the messages RECV has returned, in order
    req,             \* the request the kernel handled last
    resp,            \* the response it returned to that request
    purged,          \* the keys whose expired entries that request erased
    next_request_id_,  \* AsyncTaskManager::next_request_id_
    queue_,            \* AsyncTaskManager::queue_ : the tasks waiting for a worker
    queue_mutex_,      \* the worker holding queue_mutex_, or NoThread
    stopping_,         \* AsyncTaskManager::stopping_
    results_,          \* AsyncTaskManager::results_ : agent id -> queue of AsyncResult
    workers_,          \* worker thread -> its position in worker_loop and its task
    callers,           \* calling thread -> its position in next_request_id / submit
    issued,            \* the ids next_request_id has handed out so far
    returned,          \* the ids of the calls of next_request_id that have returned
    task_owner,        \* request id -> the agent its task was submitted for
    dtor,              \* the position of ~AsyncTaskManager
    agents_by_name_,   \* AgentManager::agents_by_name_ : name -> the agent's process
    agents_by_id_,     \* AgentManager::agents_by_id_ : id -> the name of the agent
    saved_configs_,    \* AgentManager::saved_configs_ : name -> AgentConfig
    restart_states_,   \* AgentManager::restart_states_ : name -> RestartState
    pending_restarts_, \* AgentManager::pending_restarts_
    restart_events,    \* the calls of restart_event_callback_ so far, in order
    launch_failed,     \* the names whose scheduled restart failed to start
    window_failures,   \* name -> the failures reaped in its current restart window,
                       \* counted up to max_restarts + 2
    killed,            \* the names kill_agent returned true for, with no call of
                       \* spawn_agent for the name since
    worlds_,           \* WorldEngine::worlds_ : world id -> World
    agent_to_world_,   \* WorldEngine::agent_to_world_ : agent id -> world id
    next_world_num_,   \* WorldEngine::next_world_num_
    snapshot,          \* the world snapshot a client holds, or NoSnapshot
    permissions_,      \* PermissionsStore::permissions_ : agent id -> AgentPermissions
    real_fs_,          \* the filesystem of the host: path -> content
    fs_served,         \* the filesystem the last READ or WRITE was served from
    lock_threads,      \* thread -> the lock and unlock steps its call has still to
                       \* take, and the mutexes it holds, in the order it took them
    running_,          \* TunnelClient::running_
    stdin_fd_,         \* TunnelClient::stdin_fd_ : the pipe to the subprocess, or NoFd
    tunnel_next_request_id_,  \* TunnelClient::next_request_id_
    pending_responses_,  \* TunnelClient::pending_responses_ : request id -> its
                       \* reply, or the empty JSON value
    tunnel_call,       \* the position of the caller in send_request_and_wait
    tunnel_wire,       \* the ids of the requests the subprocess has yet to answer
    tunnel_shutdown,   \* the position of TunnelClient::shutdown
    tunnel_returns     \* what send_request_and_wait has returned so far, in order

stateVars == <<store_, now>>
busVars == <<subscriptions_, queues_>>
ipcVars == <<agent_names_, agent_ids_to_names_, agent_mailboxes_, sent_log, recv_log>>
asyncVars == <<next_request_id_, queue_, queue_mutex_, stopping_, results_, workers_,
               callers, issued, returned, task_owner, dtor>>
supVars == <<agents_by_name_, agents_by_id_, saved_configs_, restart_states_,
             pending_restarts_, restart_events, launch_failed, window_failures, killed>>
worldVars == <<worlds_, agent_to_world_, next_world_num_, snapshot>>
fsVars == <<permissions_, real_fs_, fs_served>>
lockVars == <<lock_threads>>
tunnelVars == <<running_, stdin_fd_, tunnel_next_request_id_, pending_responses_,
                tunnel_call, tunnel_wire, tunnel_shutdown, tunnel_returns>>
restVars == <<asyncVars, supVars, worldVars, fsVars, lockVars, tunnelVars>>
vars == <<store_, now, subscriptions_, queues_, agent_names_, agent_ids_to_names_,
          agent_mailboxes_, sent_log, recv_log, req, resp, purged, asyncVars, supVars,
          worldVars, fsVars, lockVars, tunnelVars>>

(***************************************************************************)
(* Bounds of the model.                                                    *)
(***************************************************************************)
MaxTicks == 1        \* the clock advances at most this many times
TickSecs == 2        \* seconds between two observations of the clock
MaxQueue == 1        \* a STORE is modelled only while no event queue exceeds this
MaxSends == 2        \* SEND requests that deliver, per behaviour
MaxBusQueue == 2     \* an event is emitted only while no event queue exceeds this
MaxRequestIds == 2   \* calls of next_request_id, per behaviour
MaxSupTicks == 5     \* advances of the clock under the supervisor
MaxWorlds == 1       \* world ids that generate_world_id hands out
MaxRespawns == 2     \* restart events after which no name is spawned by hand
ClockStart == 5      \* steady_clock value at kernel start (seconds of uptime)

AgentIds == {1, 2}

JSON_NULL == "null"
JSON_OBJECT == "{}"
Values == {"v1", "v2"}

(***************************************************************************)
(* A map with string keys: std::unordered_map.                             *)
(***************************************************************************)
EmptyMap == [k \in {} |-> {}]

MapPut(m, k, v) == [x \in DOMAIN m \cup {k} |-> IF x = k THEN v ELSE m[x]]

MapErase(m, k) == [x \in DOMAIN m \ {k} |-> m[x]]

(***************************************************************************)
(* std::string helpers.                                                    *)
(***************************************************************************)
\* s.find(p) == 0
StartsWith(s, p) == Len(p) <= Len(s) /\ SubSeq(s, 1, Len(p)) = p

\* s.find(':', from), with from counted from 0 as in C++; 0 stands for npos,
\* otherwise the result is the 1-based position of the colon.
FindColon(s, from) ==
    LET hits == {i \in (from + 1)..Len(s) : SubSeq(s, i, i) = ":"}
    IN IF hits = {} THEN 0 ELSE CHOOSE i \in hits : \A j \in hits : i <= j

(***************************************************************************)
(* StoredValue::is_expired.  expires_at = 0 is the default-constructed     *)
(* time_point (the clock's epoch), which marks "no expiry".                *)
(***************************************************************************)
NoExpiry == 0

is_expired(entry, t) ==
    IF entry.expires_at = NoExpiry THEN FALSE ELSE t > entry.expires_at

(***************************************************************************)
(* StateStore::can_access_key and StateStore::make_agent_key.              *)
(***************************************************************************)
\* Fault: the owner of an agent-scoped entry is not compared with the caller.
can_access_key_any_owner(agent_id, value) ==
    value.scope \in {"global", "agent", "session"}

can_access_key(agent_id, value) ==
    \/ value.scope = "global"
    \/ value.scope = "agent" /\ value.owner_agent_id = agent_id
    \/ value.scope = "session"

make_agent_key(agent_id, key) == "agent:" \o ToString(agent_id) \o ":" \o key

(***************************************************************************)
(* StateStore::store.  Returns the new map and the StoreResult.            *)
(***************************************************************************)
EffectiveScope(scope) ==
    LET s == IF scope = "" THEN "global" ELSE scope
    IN IF s # "global" /\ s # "agent" /\ s # "session" THEN "global" ELSE s

ExpiresAt(t, ttl_secs) ==
    IF ttl_secs # {} THEN t + (CHOOSE x \in ttl_secs : TRUE) ELSE NoExpiry

StateStore_store(s, t, agent_id, key, value, scope, ttl_secs) ==
    IF key = ""
    THEN [store |-> s, result |-> [success |-> FALSE, key |-> "", scope |-> ""]]
    ELSE LET entry == [value |-> value,
                       owner_agent_id |-> agent_id,
                       scope |-> EffectiveScope(scope),
                       expires_at |-> ExpiresAt(t, ttl_secs)]
             store_key == IF entry.scope = "agent"
                          THEN make_agent_key(agent_id, key) ELSE key
         IN [store |-> MapPut(s, store_key, entry),
             result |-> [success |-> TRUE, key |-> key, scope |-> entry.scope]]

(***************************************************************************)
(* StateStore::fetch.  The loop over keys_to_try erases the expired        *)
(* entries it meets and returns the first live entry the caller may read.  *)
(***************************************************************************)
FetchMiss == [success |-> TRUE, exists |-> FALSE, value |-> JSON_NULL, scope |-> ""]

\* Fault: an expired entry is skipped but left in the map.
RECURSIVE fetch_loop_keep_expired(_, _, _, _)
fetch_loop_keep_expired(s, t, agent_id, keys_to_try) ==
    IF keys_to_try = <<>>
    THEN [store |-> s, result |-> FetchMiss]
    ELSE LET try_key == Head(keys_to_try)
         IN IF try_key \notin DOMAIN s
               \/ is_expired(s[try_key], t)
               \/ ~can_access_key(agent_id, s[try_key])
            THEN fetch_loop_keep_expired(s, t, agent_id, Tail(keys_to_try))
            ELSE [store |-> s,
                  result |-> [success |-> TRUE, exists |-> TRUE,
                              value |-> s[try_key].value,
                              scope |-> s[try_key].scope]]

RECURSIVE fetch_loop(_, _, _, _)
fetch_loop(s, t, agent_id, keys_to_try) ==
    IF keys_to_try = <<>>
    THEN [store |-> s, result |-> FetchMiss]
    ELSE LET try_key == Head(keys_to_try)
         IN IF try_key \notin DOMAIN s
            THEN fetch_loop(s, t, agent_id, Tail(keys_to_try))
            ELSE IF is_expired(s[try_key], t)
            THEN fetch_loop(MapErase(s, try_key), t, agent_id, Tail(keys_to_try))
            ELSE IF ~can_access_key(agent_id, s[try_key])
            THEN fetch_loop(s, t, agent_id, Tail(keys_to_try))
            ELSE [store |-> s,
                  result |-> [success |-> TRUE, exists |-> TRUE,
                              value |-> s[try_key].value,
                              scope |-> s[try_key].scope]]

\* Fault: the caller's private key is tried before the shared key.
KeysToTry_private_first(agent_id, key) == <<make_agent_key(agent_id, key), key>>

KeysToTry(agent_id, key) == <<key, make_agent_key(agent_id, key)>>

StateStore_fetch(s, t, agent_id, key) ==
    IF key = ""
    THEN [store |-> s,
          result |-> [success |-> FALSE, exists |-> FALSE,
                      value |-> JSON_NULL, scope |-> ""]]
    ELSE fetch_loop(s, t, agent_id, KeysToTry(agent_id, key))

(***************************************************************************)
(* StateStore::erase.  No expiry check: the first candidate that the       *)
(* caller owns, or that is global, is removed.                             *)
(***************************************************************************)
\* Fault: a session entry is treated like a global one.
MayErase_shared(agent_id, entry) ==
    entry.owner_agent_id = agent_id \/ entry.scope \in {"global", "session"}

MayErase(agent_id, entry) ==
    entry.owner_agent_id = agent_id \/ entry.scope = "global"

RECURSIVE erase_loop(_, _, _)
erase_loop(s, agent_id, keys_to_try) ==
    IF keys_to_try = <<>>
    THEN [store |-> s, result |-> [success |-> TRUE, deleted |-> FALSE]]
    ELSE LET try_key == Head(keys_to_try)
         IN IF try_key \notin DOMAIN s
            THEN erase_loop(s, agent_id, Tail(keys_to_try))
            ELSE IF MayErase(agent_id, s[try_key])
            THEN [store |-> MapErase(s, try_key),
                  result |-> [success |-> TRUE, deleted |-> TRUE]]
            ELSE erase_loop(s, agent_id, Tail(keys_to_try))

StateStore_erase(s, agent_id, key) ==
    IF key = ""
    THEN [store |-> s, result |-> [success |-> FALSE, deleted |-> FALSE]]
    ELSE erase_loop(s, agent_id, KeysToTry(agent_id, key))

(***************************************************************************)
(* StateStore::keys.  Every expired entry is erased; every other entry the *)
(* caller may access whose PHYSICAL key starts with the prefix is listed,  *)
(* under the name left after stripping "agent:<...>:".  The result is the  *)
(* set of listed entries, each with the name pushed for it (the vector's   *)
(* order is the hash map's iteration order).                               *)
(***************************************************************************)
ListedName(key) ==
    IF StartsWith(key, "agent:")
    THEN LET second_colon == FindColon(key, 6)
         IN IF second_colon # 0
            THEN SubSeq(key, second_colon + 1, Len(key))
            ELSE key
    ELSE key

PrefixMatches(key, prefix) == prefix = "" \/ StartsWith(key, prefix)

Unexpired(s, t) ==
    LET live == {k \in DOMAIN s : ~is_expired(s[k], t)}
    IN [k \in live |-> s[k]]

StateStore_keys(s, t, agent_id, prefix) ==
    LET kept == Unexpired(s, t)
        listed == {k \in DOMAIN kept :
                      can_access_key(agent_id, kept[k]) /\ PrefixMatches(k, prefix)}
    IN [store |-> kept,
        result |-> {[entry |-> k, name |-> ListedName(k)] : k \in listed}]

(***************************************************************************)
(* EventBus::emit: the event is pushed on the queue of every agent whose   *)
(* subscription set holds the type (queues_[agent_id] is created on first  *)
(* use).                                                                   *)
(***************************************************************************)
QueueOf(q, agent_id) == IF agent_id \in DOMAIN q THEN q[agent_id] ELSE <<>>

Subscribed(subs, agent_id, type) ==
    agent_id \in DOMAIN subs /\ type \in subs[agent_id]

\* Fault: the event is queued for every agent that has subscriptions,
\* whatever their types.
EventBus_emit_to_all(subs, q, t, type, data, source_agent_id) ==
    LET event == [type |-> type, data |-> data, timestamp |-> t,
                  source_agent_id |-> source_agent_id]
        hit == DOMAIN subs
    IN [a \in DOMAIN q \cup hit |->
            IF a \in hit THEN Append(QueueOf(q, a), event) ELSE q[a]]

EventBus_emit(subs, q, t, type, data, source_agent_id) ==
    LET event == [type |-> type, data |-> data, timestamp |-> t,
                  source_agent_id |-> source_agent_id]
        hit == {a \in DOMAIN subs : type \in subs[a]}
    IN [a \in DOMAIN q \cup hit |->
            IF a \in hit THEN Append(QueueOf(q, a), event) ELSE q[a]]

(***************************************************************************)
(* EventBus::subscribe, EventBus::unsubscribe, EventBus::poll.             *)
(***************************************************************************)
EventBus_subscribe(subs, agent_id, types) ==
    MapPut(subs, agent_id,
           (IF agent_id \in DOMAIN subs THEN subs[agent_id] ELSE {}) \cup types)

EventBus_unsubscribe(subs, agent_id, types, unsubscribe_all) ==
    IF unsubscribe_all THEN MapErase(subs, agent_id)
    ELSE IF agent_id \notin DOMAIN subs THEN subs
    ELSE MapPut(subs, agent_id, subs[agent_id] \ types)

Min(a, b) == IF a <= b THEN a ELSE b

PollCount(queue, max_events) ==
    IF max_events <= 0 THEN 0 ELSE Min(Len(queue), max_events)

\* The JSON form of a polled event: the name of its type, and its timestamp
\* in milliseconds (the clock of the model counts seconds).
event_json(event) ==
    [type |-> event.type, data |-> event.data,
     source_agent_id |-> event.source_agent_id,
     timestamp |-> event.timestamp * 1000]

\* Fault: the events are read from the queue but not popped.
EventBus_poll_peek(q, agent_id, max_events) ==
    IF agent_id \notin DOMAIN q
    THEN [queues |-> q, events |-> <<>>]
    ELSE LET n == PollCount(q[agent_id], max_events)
         IN [queues |-> q,
             events |-> [i \in 1..n |-> event_json(q[agent_id][i])]]

EventBus_poll(q, agent_id, max_events) ==
    IF agent_id \notin DOMAIN q
    THEN [queues |-> q, events |-> <<>>]
    ELSE LET n == PollCount(q[agent_id], max_events)
         IN [queues |-> MapPut(q, agent_id,
                               SubSeq(q[agent_id], n + 1, Len(q[agent_id]))),
             events |-> [i \in 1..n |-> event_json(q[agent_id][i])]]

(***************************************************************************)
(* JSON payloads.  A payload that does not parse makes json::parse throw;  *)
(* the handler's catch block answers "invalid request".  j.value(f, d) is  *)
(* d when the field is absent.                                             *)
(***************************************************************************)
The(opt) == CHOOSE x \in opt : TRUE

ValueOr(opt, default) == IF opt = {} THEN default ELSE The(opt)

InvalidRequest(agent_id, op) ==
    [op |-> op, agent_id |-> agent_id, success |-> FALSE, error |-> "invalid request"]

(***************************************************************************)
(* StateSyscalls::handle_store.                                            *)
(***************************************************************************)
StateChangedData(key, agent_id) ==
    [key |-> key, action |-> "store", agent_id |-> agent_id]

\* Fault: every successful store is announced, whatever its scope.
StoreEmits_always(result) == result.success

StoreEmits(result) == result.scope = "global"

handle_store(agent_id, p) ==
    IF ~p.valid
    THEN /\ resp' = InvalidRequest(agent_id, "STORE")
         /\ UNCHANGED <<store_, subscriptions_, queues_>>
    ELSE LET key == ValueOr(p.key, "")
         IN IF key = ""
            THEN /\ resp' = [op |-> "STORE", agent_id |-> agent_id,
                             success |-> FALSE, error |-> "key is required"]
                 /\ UNCHANGED <<store_, subscriptions_, queues_>>
            ELSE LET r == StateStore_store(store_, now, agent_id, key,
                                           ValueOr(p.value, JSON_NULL),
                                           ValueOr(p.scope, "global"), p.ttl)
                 IN IF ~r.result.success
                    THEN /\ resp' = [op |-> "STORE", agent_id |-> agent_id,
                                     success |-> FALSE,
                                     error |-> "failed to store key"]
                         /\ UNCHANGED <<store_, subscriptions_, queues_>>
                    ELSE /\ store_' = r.store
                         /\ queues_' =
                               IF StoreEmits(r.result)
                               THEN EventBus_emit(subscriptions_, queues_, now,
                                                  "STATE_CHANGED",
                                                  StateChangedData(key, agent_id),
                                                  agent_id)
                               ELSE queues_
                         /\ resp' = [op |-> "STORE", agent_id |-> agent_id,
                                     success |-> TRUE, key |-> key]
                         /\ UNCHANGED subscriptions_

(***************************************************************************)
(* StateSyscalls::handle_fetch.                                            *)
(***************************************************************************)
FetchResponse(agent_id, result) ==
    IF result.exists
    THEN [op |-> "FETCH", agent_id |-> agent_id, success |-> TRUE,
          exists |-> TRUE, value |-> result.value, scope |-> result.scope]
    ELSE [op |-> "FETCH", agent_id |-> agent_id, success |-> TRUE,
          exists |-> FALSE, value |-> result.value]

handle_fetch(agent_id, p) ==
    IF ~p.valid
    THEN /\ resp' = InvalidRequest(agent_id, "FETCH")
         /\ UNCHANGED store_
    ELSE LET key == ValueOr(p.key, "")
         IN IF key = ""
            THEN /\ resp' = [op |-> "FETCH", agent_id |-> agent_id,
                             success |-> FALSE, error |-> "key is required"]
                 /\ UNCHANGED store_
            ELSE LET r == StateStore_fetch(store_, now, agent_id, key)
                 IN /\ store_' = r.store
                    /\ resp' = IF ~r.result.success
                               THEN [op |-> "FETCH", agent_id |-> agent_id,
                                     success |-> FALSE,
                                     error |-> "failed to fetch key"]
                               ELSE FetchResponse(agent_id, r.result)

\* Fault: a DELETE without a key is passed on to the store.
handle_delete_nokey(agent_id, p) ==
    IF ~p.valid
    THEN /\ resp' = InvalidRequest(agent_id, "DELETE")
         /\ UNCHANGED store_
    ELSE LET r == StateStore_erase(store_, agent_id, ValueOr(p.key, ""))
         IN /\ store_' = r.store
            /\ resp' = [op |-> "DELETE", agent_id |-> agent_id,
                        success |-> r.result.success, deleted |-> r.result.deleted]

(***************************************************************************)
(* StateSyscalls::handle_delete.                                           *)
(***************************************************************************)
handle_delete(agent_id, p) ==
    IF ~p.valid
    THEN /\ resp' = InvalidRequest(agent_id, "DELETE")
         /\ UNCHANGED store_
    ELSE LET key == ValueOr(p.key, "")
         IN IF key = ""
            THEN /\ resp' = [op |-> "DELETE", agent_id |-> agent_id,
                             success |-> FALSE, error |-> "key is required"]
                 /\ UNCHANGED store_
            ELSE LET r == StateStore_erase(store_, agent_id, key)
                 IN /\ store_' = r.store
                    /\ resp' = [op |-> "DELETE", agent_id |-> agent_id,
                                success |-> r.result.success,
                                deleted |-> r.result.deleted]

(***************************************************************************)
(* StateSyscalls::handle_keys.  An empty payload is not parsed.            *)
(***************************************************************************)
handle_keys(agent_id, p) ==
    IF ~p.valid
    THEN /\ resp' = InvalidRequest(agent_id, "KEYS")
         /\ UNCHANGED store_
    ELSE LET r == StateStore_keys(store_, now, agent_id, ValueOr(p.prefix, ""))
         IN /\ store_' = r.store
            /\ resp' = [op |-> "KEYS", agent_id |-> agent_id, success |-> TRUE,
                        keys |-> r.result, count |-> Cardinality(r.result)]

(***************************************************************************)
(* kernel_event_type_from_string: a name that is no KernelEventType is     *)
(* CUSTOM.                                                                 *)
(***************************************************************************)
KernelEventTypes ==
    {"AGENT_SPAWNED", "AGENT_EXITED", "AGENT_PAUSED", "AGENT_RESUMED",
     "AGENT_RESTARTING", "AGENT_ESCALATED", "MESSAGE_RECEIVED", "STATE_CHANGED",
     "SYSCALL_BLOCKED", "RESOURCE_WARNING", "CUSTOM"}

kernel_event_type_from_string(str) ==
    IF str \in KernelEventTypes THEN str ELSE "CUSTOM"

(***************************************************************************)
(* EventSyscalls::handle_subscribe / handle_unsubscribe.  The names come   *)
(* from "event_types", else "events" (arrays), else "event" (one name).    *)
(***************************************************************************)
RequestedEvents(p) ==
    IF p.event_types # {} THEN The(p.event_types)
    ELSE IF p.events # {} THEN The(p.events)
    ELSE IF p.event # {} THEN <<The(p.event)>>
    ELSE <<>>

TypesOf(event_types) ==
    {kernel_event_type_from_string(event_types[i]) : i \in DOMAIN event_types}

handle_subscribe(agent_id, p) ==
    IF ~p.valid
    THEN /\ resp' = InvalidRequest(agent_id, "SUBSCRIBE")
         /\ UNCHANGED subscriptions_
    ELSE LET event_types == RequestedEvents(p)
         IN IF event_types = <<>>
            THEN /\ resp' = [op |-> "SUBSCRIBE", agent_id |-> agent_id,
                             success |-> FALSE, error |-> "No events specified"]
                 /\ UNCHANGED subscriptions_
            ELSE /\ subscriptions_' =
                        EventBus_subscribe(subscriptions_, agent_id, TypesOf(event_types))
                 /\ resp' = [op |-> "SUBSCRIBE", agent_id |-> agent_id,
                             success |-> TRUE, subscribed |-> event_types]

handle_unsubscribe(agent_id, p) ==
    IF ~p.valid
    THEN /\ resp' = InvalidRequest(agent_id, "UNSUBSCRIBE")
         /\ UNCHANGED subscriptions_
    ELSE LET unsubscribe_all == ValueOr(p.all, FALSE)
             event_types == IF unsubscribe_all THEN <<>> ELSE RequestedEvents(p)
         IN /\ subscriptions_' =
                   EventBus_unsubscribe(subscriptions_, agent_id,
                                        TypesOf(event_types), unsubscribe_all)
            /\ resp' = [op |-> "UNSUBSCRIBE", agent_id |-> agent_id, success |-> TRUE]

(***************************************************************************)
(* EventSyscalls::handle_poll_events.  An empty payload is not parsed.     *)
(***************************************************************************)
DefaultMaxEvents == 100

handle_poll_events(agent_id, p) ==
    IF ~p.valid
    THEN /\ resp' = InvalidRequest(agent_id, "POLL_EVENTS")
         /\ UNCHANGED queues_
    ELSE LET r == EventBus_poll(queues_, agent_id, ValueOr(p.max, DefaultMaxEvents))
         IN /\ queues_' = r.queues
            /\ resp' = [op |-> "POLL_EVENTS", agent_id |-> agent_id,
                        success |-> TRUE, events |-> r.events,
                        count |-> Len(r.events)]

(***************************************************************************)
(* EventSyscalls::emit_event and EventSyscalls::handle_emit.  An EMIT      *)
(* request always emits type CUSTOM; a name other than "CUSTOM" is written *)
(* into the data as "custom_type", which throws when the data is neither   *)
(* an object nor null.                                                     *)
(***************************************************************************)
emit_event(type, data, source_agent_id) ==
    queues_' = EventBus_emit(subscriptions_, queues_, now, type, data, source_agent_id)

JsonData(kind, body, custom_type) ==
    [kind |-> kind, body |-> body, custom_type |-> custom_type]

\* Fault: the event is emitted under the type its name parses to.
handle_emit_typed(agent_id, p) ==
    IF ~p.valid
    THEN /\ resp' = InvalidRequest(agent_id, "EMIT")
         /\ UNCHANGED queues_
    ELSE LET event_name == ValueOr(p.event, "CUSTOM")
             given == ValueOr(p.data, JsonData("null", "", ""))
         IN IF event_name # "CUSTOM" /\ given.kind \notin {"null", "object"}
            THEN /\ resp' = InvalidRequest(agent_id, "EMIT")
                 /\ UNCHANGED queues_
            ELSE LET event_data ==
                         IF event_name # "CUSTOM"
                         THEN JsonData("object", given.body, event_name)
                         ELSE given
                 IN /\ emit_event(kernel_event_type_from_string(event_name), event_data,
                                  agent_id)
                    /\ resp' = [op |-> "EMIT", agent_id |-> agent_id,
                                success |-> TRUE, event |-> event_name]

handle_emit(agent_id, p) ==
    IF ~p.valid
    THEN /\ resp' = InvalidRequest(agent_id, "EMIT")
         /\ UNCHANGED queues_
    ELSE LET event_name == ValueOr(p.event, "CUSTOM")
             given == ValueOr(p.data, JsonData("null", "", ""))
         IN IF event_name # "CUSTOM" /\ given.kind \notin {"null", "object"}
            THEN /\ resp' = InvalidRequest(agent_id, "EMIT")
                 /\ UNCHANGED queues_
            ELSE LET event_data ==
                         IF event_name # "CUSTOM"
                         THEN JsonData("object", given.body, event_name)
                         ELSE given
                 IN /\ emit_event("CUSTOM", event_data, agent_id)
                    /\ resp' = [op |-> "EMIT", agent_id |-> agent_id,
                                success |-> TRUE, event |-> event_name]

(***************************************************************************)
(* The mailbox registry (kernel/ipc_mailbox.hpp).  Its state is the name   *)
(* registry and the mailboxes the kernel declares; its operations follow   *)
(* the contracts of the mailbox registry: register succeeds iff the name   *)
(* is not currently bound, and the binding lasts until the agent           *)
(* re-registers; send enqueues one entry on the recipient's queue; recv    *)
(* drains up to max entries in FIFO order.  Whether an agent may register  *)
(* again the name it already holds is left open: both outcomes are         *)
(* modelled.                                                               *)
(***************************************************************************)
Rebind(names, ids_to_names, agent_id, name) ==
    LET kept == {n \in DOMAIN names : names[n] # agent_id}
    IN [names |-> [n \in kept \cup {name} |-> IF n = name THEN agent_id ELSE names[n]],
        ids_to_names |-> MapPut(ids_to_names, agent_id, name)]

register_name(names, ids_to_names, agent_id, name) ==
    LET refused == [names |-> names, ids_to_names |-> ids_to_names,
                    result |-> [success |-> FALSE, error |-> ""]]
        bound == Rebind(names, ids_to_names, agent_id, name)
        accepted == [names |-> bound.names, ids_to_names |-> bound.ids_to_names,
                     result |-> [success |-> TRUE, error |-> ""]]
    IN IF name \notin DOMAIN names THEN {accepted}
       ELSE IF names[name] = agent_id THEN {accepted, refused}
       ELSE {refused}

resolve_name(names, name) == IF name \in DOMAIN names THEN {names[name]} ELSE {}

get_name(ids_to_names, agent_id) ==
    IF agent_id \in DOMAIN ids_to_names THEN ids_to_names[agent_id] ELSE ""

MailboxOf(boxes, agent_id) == IF agent_id \in DOMAIN boxes THEN boxes[agent_id] ELSE <<>>

enqueue(boxes, target_id, message) ==
    MapPut(boxes, target_id, Append(MailboxOf(boxes, target_id), message))

dequeue(boxes, agent_id, max_messages) ==
    LET box == MailboxOf(boxes, agent_id)
        n == IF max_messages <= 0 THEN 0 ELSE Min(Len(box), max_messages)
    IN [boxes |-> IF agent_id \in DOMAIN boxes
                  THEN MapPut(boxes, agent_id, SubSeq(box, n + 1, Len(box)))
                  ELSE boxes,
        messages |-> SubSeq(box, 1, n)]

(***************************************************************************)
(* IpcSyscalls::handle_register.                                           *)
(***************************************************************************)
\* Fault: the outcome of register_name is not looked at.
RegisterResponse_unchecked(agent_id, name, result) ==
    [op |-> "REGISTER", agent_id |-> agent_id, success |-> TRUE, name |-> name]

RegisterResponse(agent_id, name, result) ==
    IF ~result.success
    THEN [op |-> "REGISTER", agent_id |-> agent_id, success |-> FALSE,
          error |-> IF result.error = "" THEN "name already registered"
                    ELSE result.error]
    ELSE [op |-> "REGISTER", agent_id |-> agent_id, success |-> TRUE, name |-> name]

handle_register(agent_id, p) ==
    IF ~p.valid
    THEN /\ resp' = InvalidRequest(agent_id, "REGISTER")
         /\ UNCHANGED <<agent_names_, agent_ids_to_names_>>
    ELSE LET name == ValueOr(p.name, "")
         IN IF name = ""
            THEN /\ resp' = [op |-> "REGISTER", agent_id |-> agent_id,
                             success |-> FALSE, error |-> "name required"]
                 /\ UNCHANGED <<agent_names_, agent_ids_to_names_>>
            ELSE \E r \in register_name(agent_names_, agent_ids_to_names_,
                                        agent_id, name) :
                    /\ agent_names_' = r.names
                    /\ agent_ids_to_names_' = r.ids_to_names
                    /\ resp' = RegisterResponse(agent_id, name, r.result)

(***************************************************************************)
(* IpcSyscalls::handle_send.  A numeric "to" other than 0 is used as it    *)
(* is; "to_name" is resolved only when "to" is 0 or absent.                *)
(***************************************************************************)
SendFailure(agent_id, error) ==
    [op |-> "SEND", agent_id |-> agent_id, success |-> FALSE, error |-> error]

handle_send(agent_id, p) ==
    IF ~p.valid
    THEN /\ resp' = InvalidRequest(agent_id, "SEND")
         /\ UNCHANGED agent_mailboxes_
    ELSE LET to == ValueOr(p.to, 0)
             target_name == ValueOr(p.to_name, "")
             by_name == to = 0 /\ target_name # ""
             resolved == resolve_name(agent_names_, target_name)
             target_id == IF by_name /\ resolved # {} THEN The(resolved) ELSE to
             ipc_msg == [from_id |-> agent_id,
                         from_name |-> get_name(agent_ids_to_names_, agent_id),
                         message |-> ValueOr(p.message, JSON_OBJECT),
                         timestamp |-> now]
         IN IF by_name /\ resolved = {}
            THEN /\ resp' = SendFailure(agent_id, "target agent not found: " \o target_name)
                 /\ UNCHANGED agent_mailboxes_
            ELSE IF target_id = 0
            THEN /\ resp' = SendFailure(agent_id, "target agent required (to or to_name)")
                 /\ UNCHANGED agent_mailboxes_
            ELSE /\ agent_mailboxes_' = enqueue(agent_mailboxes_, target_id, ipc_msg)
                 /\ resp' = [op |-> "SEND", agent_id |-> agent_id, success |-> TRUE,
                             delivered_to |-> target_id]

(***************************************************************************)
(* IpcSyscalls::handle_recv.  Each returned message carries its sender,    *)
(* the sender's name, the body and its age.                                *)
(***************************************************************************)
DefaultMaxMessages == 10

\* Fault: the "max" field of the request is not read.
RecvMax_ignored(p) == DefaultMaxMessages

RecvMax(p) == ValueOr(p.max, DefaultMaxMessages)

Delivered(ipc_msg, t) ==
    [from |-> ipc_msg.from_id, from_name |-> ipc_msg.from_name,
     message |-> ipc_msg.message, age_ms |-> (t - ipc_msg.timestamp) * 1000]

handle_recv(agent_id, p) ==
    IF ~p.valid
    THEN /\ resp' = [op |-> "RECV", agent_id |-> agent_id, success |-> FALSE,
                     error |-> "invalid request", messages |-> <<>>, count |-> 0]
         /\ UNCHANGED agent_mailboxes_
    ELSE LET r == dequeue(agent_mailboxes_, agent_id, RecvMax(p))
         IN /\ agent_mailboxes_' = r.boxes
            /\ resp' = [op |-> "RECV", agent_id |-> agent_id, success |-> TRUE,
                        messages |-> [i \in DOMAIN r.messages |->
                                         Delivered(r.messages[i], now)],
                        count |-> Len(r.messages)]

(***************************************************************************)
(* Requests.  Each action is one request handled by the kernel's           *)
(* single-threaded dispatcher: the whole handler runs, and req records     *)
(* what was asked.                                                         *)
(***************************************************************************)
BadPayload == [valid |-> FALSE]

StorePayload(key, value, scope, ttl) ==
    [valid |-> TRUE, key |-> key, value |-> value, scope |-> scope, ttl |-> ttl]

KeyPayload(key) == [valid |-> TRUE, key |-> key]

PrefixPayload(prefix) == [valid |-> TRUE, prefix |-> prefix]

Request(op, agent_id, arg) == [op |-> op, agent_id |-> agent_id, arg |-> arg]

NoRequest == Request("NONE", 0, "")

NoResponse == [op |-> "NONE", agent_id |-> 0, success |-> FALSE]

EventsPayload(event_types, events, event, all) ==
    [valid |-> TRUE, event_types |-> event_types, events |-> events,
     event |-> event, all |-> all]

MaxPayload(max) == [valid |-> TRUE, max |-> max]

StoreRequest(agent_id, p) ==
    /\ handle_store(agent_id, p)
    /\ \A a \in DOMAIN queues_' : Len(queues_'[a]) <= MaxQueue
    /\ req' = Request("STORE", agent_id, IF p.valid THEN ValueOr(p.key, "") ELSE "")
    /\ purged' = {}
    /\ UNCHANGED now
    /\ UNCHANGED ipcVars
    /\ UNCHANGED restVars

FetchRequest(agent_id, p) ==
    /\ handle_fetch(agent_id, p)
    /\ req' = Request("FETCH", agent_id, IF p.valid THEN ValueOr(p.key, "") ELSE "")
    /\ purged' = DOMAIN store_ \ DOMAIN store_'
    /\ UNCHANGED <<now, subscriptions_, queues_>>
    /\ UNCHANGED ipcVars
    /\ UNCHANGED restVars

DeleteRequest(agent_id, p) ==
    /\ handle_delete(agent_id, p)
    /\ req' = Request("DELETE", agent_id, IF p.valid THEN ValueOr(p.key, "") ELSE "")
    /\ purged' = {}
    /\ UNCHANGED <<now, subscriptions_, queues_>>
    /\ UNCHANGED ipcVars
    /\ UNCHANGED restVars

KeysRequest(agent_id, p) ==
    /\ handle_keys(agent_id, p)
    /\ req' = Request("KEYS", agent_id, IF p.valid THEN ValueOr(p.prefix, "") ELSE "")
    /\ purged' = DOMAIN store_ \ DOMAIN store_'
    /\ UNCHANGED <<now, subscriptions_, queues_>>
    /\ UNCHANGED ipcVars
    /\ UNCHANGED restVars

SubscribeRequest(agent_id, p) ==
    /\ handle_subscribe(agent_id, p)
    /\ req' = Request("SUBSCRIBE", agent_id, "")
    /\ purged' = {}
    /\ UNCHANGED <<store_, now, queues_>>
    /\ UNCHANGED ipcVars
    /\ UNCHANGED restVars

UnsubscribeRequest(agent_id, p) ==
    /\ handle_unsubscribe(agent_id, p)
    /\ req' = Request("UNSUBSCRIBE", agent_id, "")
    /\ purged' = {}
    /\ UNCHANGED <<store_, now, queues_>>
    /\ UNCHANGED ipcVars
    /\ UNCHANGED restVars

PollEventsRequest(agent_id, p) ==
    /\ handle_poll_events(agent_id, p)
    /\ req' = Request("POLL_EVENTS", agent_id, "")
    /\ purged' = {}
    /\ UNCHANGED <<store_, now, subscriptions_>>
    /\ UNCHANGED ipcVars
    /\ UNCHANGED restVars

EmitPayload(event, data) == [valid |-> TRUE, event |-> event, data |-> data]

EmitRequest(agent_id, p) ==
    /\ handle_emit(agent_id, p)
    /\ \A a \in DOMAIN queues_' : Len(queues_'[a]) <= MaxBusQueue
    /\ req' = Request("EMIT", agent_id, IF p.valid THEN ValueOr(p.event, "") ELSE "")
    /\ purged' = {}
    /\ UNCHANGED <<store_, now, subscriptions_>>
    /\ UNCHANGED ipcVars
    /\ UNCHANGED restVars

\* An event emitted by the kernel itself (agent lifecycle, state changes),
\* outside any request.
KernelEmit(type, data, source_agent_id) ==
    /\ emit_event(type, data, source_agent_id)
    /\ \A a \in DOMAIN queues_' : Len(queues_'[a]) <= MaxBusQueue
    /\ req' = Request("emit", source_agent_id, type)
    /\ resp' = NoResponse
    /\ purged' = {}
    /\ UNCHANGED <<store_, now, subscriptions_>>
    /\ UNCHANGED ipcVars
    /\ UNCHANGED restVars

NamePayload(name) == [valid |-> TRUE, name |-> name]

SendPayload(to, to_name, message) ==
    [valid |-> TRUE, to |-> to, to_name |-> to_name, message |-> message]

OtherThanIpc == <<store_, now, subscriptions_, queues_>>

RegisterRequest(agent_id, p) ==
    /\ handle_register(agent_id, p)
    /\ req' = Request("REGISTER", agent_id, IF p.valid THEN ValueOr(p.name, "") ELSE "")
    /\ purged' = {}
    /\ UNCHANGED <<agent_mailboxes_, sent_log, recv_log>>
    /\ UNCHANGED OtherThanIpc
    /\ UNCHANGED restVars

\* What a request asked to be delivered, and to whom: the logs are kept
\* from the requests and the responses, not from the mailboxes.
Letter(from_id, body) == [from |-> from_id, message |-> body]

Letters(messages) ==
    [i \in DOMAIN messages |-> Letter(messages[i].from, messages[i].message)]

Addressee(p) ==
    IF ValueOr(p.to, 0) # 0 THEN The(p.to) ELSE agent_names_[The(p.to_name)]

TotalSent ==
    Cardinality({x \in (DOMAIN sent_log) \X (1..MaxSends) : x[2] <= Len(sent_log[x[1]])})

SendRequest(agent_id, p) ==
    /\ TotalSent < MaxSends
    /\ handle_send(agent_id, p)
    /\ sent_log' = IF resp'.success
                   THEN enqueue(sent_log, Addressee(p),
                                Letter(agent_id, ValueOr(p.message, JSON_OBJECT)))
                   ELSE sent_log
    /\ req' = Request("SEND", agent_id, IF p.valid THEN ValueOr(p.to_name, "") ELSE "")
    /\ purged' = {}
    /\ UNCHANGED <<agent_names_, agent_ids_to_names_, recv_log>>
    /\ UNCHANGED OtherThanIpc
    /\ UNCHANGED restVars

RecvRequest(agent_id, p) ==
    /\ handle_recv(agent_id, p)
    /\ recv_log' = IF resp'.messages = <<>> THEN recv_log
                   ELSE MapPut(recv_log, agent_id,
                               MailboxOf(recv_log, agent_id) \o Letters(resp'.messages))
    /\ req' = Request("RECV", agent_id, "")
    /\ purged' = {}
    /\ UNCHANGED <<agent_names_, agent_ids_to_names_, sent_log>>
    /\ UNCHANGED OtherThanIpc
    /\ UNCHANGED restVars

(***************************************************************************)
(* AsyncTaskManager.  The constructor starts the worker threads, each      *)
(* running worker_loop; other threads call next_request_id, submit and     *)
(* poll; the destructor stops the workers.  A thread's position is the     *)
(* statement it executes next; a step is one atomic access or one critical *)
(* section.                                                                *)
(***************************************************************************)
Workers == {1, 2}
Threads == {1, 2}
NoThread == 0
NoTask == [agent_id |-> 0, request_id |-> 0, opcode |-> ""]
FirstRequestId == 1

kernelVars == <<store_, now, subscriptions_, queues_, ipcVars, purged>>

\* std::atomic::fetch_add(1): the value read and the value left behind.
\* Fault: the counter is read but not advanced.
fetch_add_lost(counter) == [value |-> counter, counter |-> counter]

fetch_add(counter) == [value |-> counter, counter |-> counter + 1]

\* A thread enters next_request_id; seen is what had returned by then.
CallNextRequestId(t) ==
    /\ callers[t].pc = "idle"
    /\ Cardinality(issued) + Cardinality({u \in Threads : callers[u].pc = "called"})
           < MaxRequestIds
    /\ callers' = [callers EXCEPT ![t] = [pc |-> "called", id |-> 0, seen |-> returned]]
    /\ UNCHANGED <<next_request_id_, queue_, queue_mutex_, stopping_, results_, workers_,
                   issued, returned, task_owner, dtor>>
    /\ UNCHANGED <<kernelVars, req, resp, supVars, worldVars, fsVars, lockVars, tunnelVars>>

\* AsyncTaskManager::next_request_id: the fetch_add.
next_request_id(t) ==
    /\ callers[t].pc = "called"
    /\ LET r == fetch_add(next_request_id_)
       IN /\ next_request_id_' = r.counter
          /\ callers' = [callers EXCEPT ![t].pc = "fetched", ![t].id = r.value]
          /\ issued' = issued \cup {r.value}
    /\ UNCHANGED <<queue_, queue_mutex_, stopping_, results_, workers_, returned,
                   task_owner, dtor>>
    /\ UNCHANGED <<kernelVars, req, resp, supVars, worldVars, fsVars, lockVars, tunnelVars>>

\* The call returns its id to the caller.
ReturnRequestId(t) ==
    /\ callers[t].pc = "fetched"
    /\ callers' = [callers EXCEPT ![t].pc = "holds"]
    /\ returned' = returned \cup {callers[t].id}
    /\ UNCHANGED <<next_request_id_, queue_, queue_mutex_, stopping_, results_, workers_,
                   issued, task_owner, dtor>>
    /\ UNCHANGED <<kernelVars, req, resp, supVars, worldVars, fsVars, lockVars, tunnelVars>>

\* std::condition_variable::notify_one: one of the waiting workers, if any.
notify_one(w) ==
    IF \E x \in Workers : w[x].pc = "waiting"
    THEN {[w EXCEPT ![x].pc = "woken"] : x \in {y \in Workers : w[y].pc = "waiting"}}
    ELSE {w}

notify_all(w) ==
    [x \in Workers |-> IF w[x].pc = "waiting" THEN [w[x] EXCEPT !.pc = "woken"] ELSE w[x]]

\* AsyncTaskManager::submit, with the id the thread holds.  The stop flag is
\* read before queue_mutex_ is taken: the call returns false when it is
\* set, and goes on to the critical section otherwise.
submit_test(t) ==
    /\ callers[t].pc = "holds"
    /\ callers' = IF stopping_
                  THEN [callers EXCEPT ![t] = [pc |-> "idle", id |-> 0, seen |-> {}]]
                  ELSE [callers EXCEPT ![t].pc = "tested"]
    /\ UNCHANGED <<next_request_id_, queue_, queue_mutex_, stopping_, results_, workers_,
                   issued, returned, task_owner, dtor>>
    /\ UNCHANGED <<kernelVars, req, resp, supVars, worldVars, fsVars, lockVars, tunnelVars>>

\* The critical section of submit and its notify_one; the call returns true.
submit_push(t, agent_id, opcode) ==
    /\ callers[t].pc = "tested"
    /\ callers' = [callers EXCEPT ![t] = [pc |-> "idle", id |-> 0, seen |-> {}]]
    /\ queue_mutex_ = NoThread
    /\ queue_' = Append(queue_, [agent_id |-> agent_id,
                                 request_id |-> callers[t].id,
                                 opcode |-> opcode])
    /\ task_owner' = MapPut(task_owner, callers[t].id, agent_id)
    /\ workers_' \in notify_one(workers_)
    /\ UNCHANGED <<next_request_id_, queue_mutex_, stopping_, results_, issued,
                   returned, dtor>>
    /\ UNCHANGED <<kernelVars, req, resp, supVars, worldVars, fsVars, lockVars, tunnelVars>>

submit(t, agent_id, opcode) ==
    \/ submit_test(t)
    \/ submit_push(t, agent_id, opcode)

\* AsyncTaskManager::poll.
ResultsOf(res, agent_id) == IF agent_id \in DOMAIN res THEN res[agent_id] ELSE <<>>

AsyncTaskManager_poll(res, agent_id, max_results) ==
    IF max_results <= 0 \/ agent_id \notin DOMAIN res
    THEN [results_ |-> res, results |-> <<>>]
    ELSE LET queue == ResultsOf(res, agent_id)
             n == Min(Len(queue), max_results)
         IN [results_ |-> MapPut(res, agent_id, SubSeq(queue, n + 1, Len(queue))),
             results |-> SubSeq(queue, 1, n)]

\* AsyncSyscalls::handle_async_poll: a payload that does not parse is read
\* as the empty object.
DefaultMaxResults == 10

handle_async_poll(agent_id, p) ==
    LET request == IF p.valid THEN p ELSE MaxPayload({})
        r == AsyncTaskManager_poll(results_, agent_id,
                                   ValueOr(request.max, DefaultMaxResults))
    IN /\ results_' = r.results_
       /\ resp' = [op |-> "ASYNC_POLL", agent_id |-> agent_id, success |-> TRUE,
                   results |-> r.results, count |-> Len(r.results)]

AsyncPollRequest(agent_id, p) ==
    /\ handle_async_poll(agent_id, p)
    /\ req' = Request("ASYNC_POLL", agent_id, "")
    /\ UNCHANGED <<next_request_id_, queue_, queue_mutex_, stopping_, workers_, callers,
                   issued, returned, task_owner, dtor>>
    /\ UNCHANGED <<kernelVars, supVars, worldVars, fsVars, lockVars, tunnelVars>>

(***************************************************************************)
(* AsyncTaskManager::worker_loop.  queue_cv_.wait(lock, pred) is           *)
(* "while (!pred()) wait(lock)": the predicate is evaluated with the mutex *)
(* held; wait(lock) releases the mutex and blocks in one step, and the     *)
(* thread takes the mutex again once it is woken.                          *)
(***************************************************************************)
WaitPredicate == stopping_ \/ queue_ # <<>>

\* std::unique_lock: the worker takes queue_mutex_ (on entry to the block,
\* and again after a wake-up).
WorkerLock(w) ==
    /\ workers_[w].pc \in {"top", "woken"}
    /\ queue_mutex_ = NoThread
    /\ queue_mutex_' = w
    /\ workers_' = [workers_ EXCEPT ![w].pc = "test"]
    /\ UNCHANGED <<next_request_id_, queue_, stopping_, results_, callers, issued,
                   returned, task_owner, dtor>>
    /\ UNCHANGED <<kernelVars, req, resp, supVars, worldVars, fsVars, lockVars, tunnelVars>>

\* The predicate of the wait is evaluated.
WorkerTest(w) ==
    /\ workers_[w].pc = "test"
    /\ workers_' = [workers_ EXCEPT ![w].pc = IF WaitPredicate THEN "ready" ELSE "block"]
    /\ UNCHANGED <<next_request_id_, queue_, queue_mutex_, stopping_, results_, callers,
                   issued, returned, task_owner, dtor>>
    /\ UNCHANGED <<kernelVars, req, resp, supVars, worldVars, fsVars, lockVars, tunnelVars>>

\* wait(lock): the mutex is released and the thread blocks.
WorkerWait(w) ==
    /\ workers_[w].pc = "block"
    /\ queue_mutex_' = NoThread
    /\ workers_' = [workers_ EXCEPT ![w].pc = "waiting"]
    /\ UNCHANGED <<next_request_id_, queue_, stopping_, results_, callers, issued,
                   returned, task_owner, dtor>>
    /\ UNCHANGED <<kernelVars, req, resp, supVars, worldVars, fsVars, lockVars, tunnelVars>>

\* A waiting thread may wake up without a notification.
SpuriousWakeup(w) ==
    /\ workers_[w].pc = "waiting"
    /\ workers_' = [workers_ EXCEPT ![w].pc = "woken"]
    /\ UNCHANGED <<next_request_id_, queue_, queue_mutex_, stopping_, results_, callers,
                   issued, returned, task_owner, dtor>>
    /\ UNCHANGED <<kernelVars, req, resp, supVars, worldVars, fsVars, lockVars, tunnelVars>>

\* After the wait: return when stopping with nothing queued, else take the
\* task at the front and release the mutex.
WorkerTake(w) ==
    /\ workers_[w].pc = "ready"
    /\ queue_mutex_' = NoThread
    /\ IF stopping_ /\ queue_ = <<>>
       THEN /\ workers_' = [workers_ EXCEPT ![w].pc = "exited"]
            /\ UNCHANGED queue_
       ELSE /\ workers_' = [workers_ EXCEPT ![w] = [pc |-> "run", task |-> Head(queue_)]]
            /\ queue_' = Tail(queue_)
    /\ UNCHANGED <<next_request_id_, stopping_, results_, callers, issued, returned,
                   task_owner, dtor>>
    /\ UNCHANGED <<kernelVars, req, resp, supVars, worldVars, fsVars, lockVars, tunnelVars>>

\* task.fn() has returned: its result goes to the queue of the task's agent.
AsyncResult(task) ==
    [request_id |-> task.request_id, opcode |-> task.opcode, payload |-> "done"]

\* Fault: the result is filed under agent 1, whatever the task's agent.
ResultQueueKey_fixed(task) == 1

ResultQueueKey(task) == task.agent_id

WorkerFinish(w) ==
    /\ workers_[w].pc = "run"
    /\ results_' = MapPut(results_, ResultQueueKey(workers_[w].task),
                          Append(ResultsOf(results_, ResultQueueKey(workers_[w].task)),
                                 AsyncResult(workers_[w].task)))
    /\ workers_' = [workers_ EXCEPT ![w] = [pc |-> "top", task |-> NoTask]]
    /\ UNCHANGED <<next_request_id_, queue_, queue_mutex_, stopping_, callers, issued,
                   returned, task_owner, dtor>>
    /\ UNCHANGED <<kernelVars, req, resp, supVars, worldVars, fsVars, lockVars, tunnelVars>>

(***************************************************************************)
(* AsyncTaskManager::~AsyncTaskManager: the stop flag is written without   *)
(* queue_mutex_, then every waiting worker is notified, then the workers   *)
(* are joined.                                                             *)
(***************************************************************************)
DtorStop ==
    /\ dtor = "alive"
    /\ stopping_' = TRUE
    /\ dtor' = "notify"
    /\ UNCHANGED <<next_request_id_, queue_, queue_mutex_, results_, workers_, callers,
                   issued, returned, task_owner>>
    /\ UNCHANGED <<kernelVars, req, resp, supVars, worldVars, fsVars, lockVars, tunnelVars>>

DtorNotify ==
    /\ dtor = "notify"
    /\ workers_' = notify_all(workers_)
    /\ dtor' = "join"
    /\ UNCHANGED <<next_request_id_, queue_, queue_mutex_, stopping_, results_, callers,
                   issued, returned, task_owner>>
    /\ UNCHANGED <<kernelVars, req, resp, supVars, worldVars, fsVars, lockVars, tunnelVars>>

DtorJoin ==
    /\ dtor = "join"
    /\ \A w \in Workers : workers_[w].pc = "exited"
    /\ dtor' = "joined"
    /\ UNCHANGED <<next_request_id_, queue_, queue_mutex_, stopping_, results_, workers_,
                   callers, issued, returned, task_owner>>
    /\ UNCHANGED <<kernelVars, req, resp, supVars, worldVars, fsVars, lockVars, tunnelVars>>

(***************************************************************************)
(* AgentManager: the supervisor.  An agent's process is known by what the  *)
(* manager asks of it: start() succeeds or fails, and a started process is *)
(* alive until it dies with an exit code; its state stays RUNNING.         *)
(* agents_by_id_ sends the id of an agent to its name; the ids a process   *)
(* is given are known up to renaming only, and a new process gets the      *)
(* least id that agents_by_id_ does not hold.  Times of the                *)
(* steady clock are seconds; scheduled_time is kept in milliseconds.  The  *)
(* backoff multiplier is a double; it is modelled as a fraction whose      *)
(* denominator is a power of two, so that the arithmetic is exact.         *)
(***************************************************************************)
RestartConfig(policy, max_restarts, restart_window_sec, backoff_initial_ms, backoff_max_ms, backoff_multiplier) ==
    [policy |-> policy, max_restarts |-> max_restarts,
     restart_window_sec |-> restart_window_sec,
     backoff_initial_ms |-> backoff_initial_ms,
     backoff_max_ms |-> backoff_max_ms,
     backoff_multiplier |-> backoff_multiplier]

\* RestartState{} with the window_start that spawn_agent gives it.
RestartState(window_start) ==
    [restart_count |-> 0, window_start |-> window_start,
     consecutive_failures |-> 0, escalated |-> FALSE]

\* The loop of calculate_backoff_delay: delay is num / den.
RECURSIVE backoff_loop(_, _, _, _, _)
backoff_loop(config, consecutive_failures, i, num, den) ==
    IF i >= consecutive_failures THEN num \div den
    ELSE LET n2 == num * config.backoff_multiplier[1]
             d2 == den * config.backoff_multiplier[2]
         IN IF n2 >= config.backoff_max_ms * d2 THEN config.backoff_max_ms
            ELSE backoff_loop(config, consecutive_failures, i + 1, n2, d2)

calculate_backoff_delay(config, consecutive_failures) ==
    IF consecutive_failures = 0 THEN config.backoff_initial_ms
    ELSE backoff_loop(config, consecutive_failures, 0, config.backoff_initial_ms, 1)

RestartEvent(event_type, agent_name, restart_count, exit_code) ==
    [event_type |-> event_type, agent_name |-> agent_name,
     restart_count |-> restart_count, exit_code |-> exit_code]

\* The policy test of reap_and_restart_agents.
should_restart(policy, exit_code) ==
    CASE policy = "ALWAYS" -> TRUE
      [] policy = "ON_FAILURE" -> exit_code # 0
      [] OTHER -> FALSE

\* The supervisor's members, as one record, for the loop over dead agents.
Supervisor(agents, ids, configs, states, pending, events) ==
    [agents |-> agents, ids |-> ids, configs |-> configs, states |-> states,
     pending |-> pending, events |-> events]

\* The id of the next AgentProcess.
FreshId(ids) == CHOOSE i \in 1..(Cardinality(DOMAIN ids) + 1) : i \notin DOMAIN ids

\* An AgentProcess whose start succeeded; it keeps the configuration it was
\* built from, of which the restart policy is recorded.
Started(id, config) ==
    [alive |-> TRUE, exit_code |-> 0, id |-> id, policy |-> config.policy]

\* restart_states_[name]: operator[] creates the entry when it is missing.
StateOf(states, name) ==
    IF name \in DOMAIN states THEN states[name] ELSE RestartState(0)

\* The window test of reap_and_restart_agents.
WindowReset(state, restart, t) ==
    IF t - state.window_start >= restart.restart_window_sec
    THEN [state EXCEPT !.window_start = t, !.restart_count = 0,
                       !.consecutive_failures = 0]
    ELSE state

\* The body of the second loop of reap_and_restart_agents, for one dead agent.
reap_one(S, name, t) ==
    LET exit_code == S.agents[name].exit_code
        agents == MapErase(S.agents, name)
        ids == MapErase(S.ids, S.agents[name].id)
    IN IF name \notin DOMAIN S.configs
       THEN [S EXCEPT !.agents = agents, !.ids = ids]
       ELSE LET config == S.configs[name]
            IN IF ~should_restart(config.policy, exit_code)
               THEN [S EXCEPT !.agents = agents, !.ids = ids,
                              !.configs = MapErase(S.configs, name),
                              !.states = MapErase(S.states, name)]
               ELSE LET state == WindowReset(StateOf(S.states, name), config, t)
                    IN IF state.restart_count >= config.max_restarts
                       THEN [S EXCEPT
                               !.agents = agents, !.ids = ids,
                               !.states = MapPut(S.states, name,
                                                 [state EXCEPT !.escalated = TRUE]),
                               !.events =
                                   IF state.escalated THEN S.events
                                   ELSE Append(S.events,
                                               RestartEvent("AGENT_ESCALATED", name,
                                                            state.restart_count, exit_code))]
                       ELSE LET backoff_ms ==
                                    calculate_backoff_delay(config, state.consecutive_failures)
                                counted ==
                                    [state EXCEPT
                                        !.restart_count = state.restart_count + 1,
                                        !.consecutive_failures = state.consecutive_failures + 1]
                            IN [S EXCEPT
                                  !.agents = agents, !.ids = ids,
                                  !.pending = Append(S.pending,
                                                     [agent_name |-> name,
                                                      scheduled_time |-> t * 1000 + backoff_ms,
                                                      config |-> config]),
                                  !.states = MapPut(S.states, name, counted),
                                  !.events = Append(S.events,
                                                    RestartEvent("AGENT_RESTARTING", name,
                                                                 counted.restart_count,
                                                                 exit_code))]

RECURSIVE reap_loop(_, _, _)
reap_loop(S, dead_agents, t) ==
    IF dead_agents = {} THEN S
    ELSE LET name == CHOOSE n \in dead_agents : TRUE
         IN reap_loop(reap_one(S, name, t), dead_agents \ {name}, t)

\* AgentManager::spawn_agent; started is the outcome of AgentProcess::start.
spawn_agent(name, config, started) ==
    /\ name \notin DOMAIN agents_by_name_
    /\ IF ~started
       THEN UNCHANGED <<agents_by_name_, agents_by_id_, saved_configs_, restart_states_>>
       ELSE /\ agents_by_name_' = MapPut(agents_by_name_, name,
                                         Started(FreshId(agents_by_id_), config))
            /\ agents_by_id_' = MapPut(agents_by_id_, FreshId(agents_by_id_), name)
            /\ IF config.policy # "NEVER"
               THEN /\ saved_configs_' = MapPut(saved_configs_, name, config)
                    /\ restart_states_' =
                           IF name \in DOMAIN restart_states_ THEN restart_states_
                           ELSE MapPut(restart_states_, name, RestartState(now))
               ELSE UNCHANGED <<saved_configs_, restart_states_>>
    /\ killed' = killed \ {name}
    /\ UNCHANGED <<pending_restarts_, restart_events, launch_failed, window_failures>>
    /\ UNCHANGED <<kernelVars, req, resp, asyncVars, worldVars, fsVars, lockVars, tunnelVars>>

\* The process of a running agent ends.
AgentDies(name, exit_code) ==
    /\ name \in DOMAIN agents_by_name_
    /\ agents_by_name_[name].alive
    /\ agents_by_name_' = [agents_by_name_ EXCEPT ![name].alive = FALSE,
                                                  ![name].exit_code = exit_code]
    /\ UNCHANGED <<agents_by_id_, saved_configs_, restart_states_, pending_restarts_,
                   restart_events, launch_failed, window_failures, killed>>
    /\ UNCHANGED <<kernelVars, req, resp, asyncVars, worldVars, fsVars, lockVars, tunnelVars>>

\* A dead agent that reap_and_restart_agents treats as a failure to restart from.
Fails(name) ==
    /\ name \in DOMAIN agents_by_name_
    /\ ~agents_by_name_[name].alive
    /\ name \in DOMAIN saved_configs_
    /\ should_restart(saved_configs_[name].policy, agents_by_name_[name].exit_code)

\* Whether the failure reaped at time t opens a new restart window.
OpensWindow(name, t) ==
    LET state == StateOf(restart_states_, name)
    IN WindowReset(state, saved_configs_[name], t) # state

\* AgentManager::reap_and_restart_agents, with something to reap.
reap_and_restart_agents ==
    LET dead_agents == {n \in DOMAIN agents_by_name_ : ~agents_by_name_[n].alive}
        S == reap_loop(Supervisor(agents_by_name_, agents_by_id_, saved_configs_,
                                  restart_states_, pending_restarts_, restart_events),
                       dead_agents, now)
    IN /\ dead_agents # {}
       /\ agents_by_name_' = S.agents
       /\ agents_by_id_' = S.ids
       /\ saved_configs_' = S.configs
       /\ restart_states_' = S.states
       /\ pending_restarts_' = S.pending
       /\ restart_events' = S.events
       /\ window_failures' =
              [n \in (DOMAIN window_failures \cap DOMAIN S.states)
                         \cup {d \in dead_agents : Fails(d)} |->
                  IF n \in dead_agents /\ Fails(n)
                  THEN IF n \notin DOMAIN window_failures \/ OpensWindow(n, now)
                       THEN 1
                       ELSE Min(window_failures[n] + 1, saved_configs_[n].max_restarts + 2)
                  ELSE window_failures[n]]
       /\ UNCHANGED <<launch_failed, killed>>
       /\ UNCHANGED <<kernelVars, req, resp, asyncVars, worldVars, fsVars, lockVars, tunnelVars>>

\* The loop of process_pending_restarts over the restarts that are due, in
\* the order of pending_restarts_.
RECURSIVE restart_loop(_, _, _, _)
restart_loop(S, due, i, started) ==
    IF i > Len(due) THEN S
    ELSE LET name == due[i].agent_name
             id == FreshId(S.ids)
         IN IF name \in started
            THEN restart_loop([S EXCEPT !.agents = MapPut(S.agents, name,
                                                          Started(id, due[i].config)),
                                        !.ids = MapPut(S.ids, id, name)],
                              due, i + 1, started)
            ELSE restart_loop(S, due, i + 1, started)

\* AgentManager::kill_agent(name)
kill_agent(name) ==
    /\ name \in DOMAIN agents_by_name_
    /\ agents_by_id_' = MapErase(agents_by_id_, agents_by_name_[name].id)
    /\ agents_by_name_' = MapErase(agents_by_name_, name)
    /\ killed' = killed \cup {name}
    /\ UNCHANGED <<saved_configs_, restart_states_, pending_restarts_, restart_events,
                   launch_failed, window_failures>>
    /\ UNCHANGED <<kernelVars, req, resp, asyncVars, worldVars, fsVars, lockVars, tunnelVars>>

\* process_pending_restarts as it would be if it launched every pending
\* restart without looking at its scheduled time.
process_pending_restarts_early(started) ==
    LET due == {pending_restarts_[i].agent_name : i \in DOMAIN pending_restarts_}
        S == restart_loop(Supervisor(agents_by_name_, agents_by_id_, saved_configs_,
                                     restart_states_, pending_restarts_, restart_events),
                          pending_restarts_, 1, started)
    IN /\ due # {}
       /\ started \subseteq due
       /\ agents_by_name_' = S.agents
       /\ agents_by_id_' = S.ids
       /\ pending_restarts_' = <<>>
       /\ launch_failed' = launch_failed \cup (due \ started)
       /\ UNCHANGED <<saved_configs_, restart_states_, restart_events, window_failures,
                      killed>>
       /\ UNCHANGED <<kernelVars, req, resp, asyncVars, worldVars, fsVars, lockVars, tunnelVars>>

\* process_pending_restarts as it would be if a successful start cleared the
\* counters of the restart state.
process_pending_restarts_reset(started) ==
    LET Due(p) == now * 1000 >= p.scheduled_time
        NotDue(p) == ~Due(p)
        due == {pending_restarts_[i].agent_name :
                    i \in {j \in DOMAIN pending_restarts_ : Due(pending_restarts_[j])}}
        S == restart_loop(Supervisor(agents_by_name_, agents_by_id_, saved_configs_,
                                     restart_states_, pending_restarts_, restart_events),
                          SelectSeq(pending_restarts_, Due), 1, started)
    IN /\ due # {}
       /\ started \subseteq due
       /\ agents_by_name_' = S.agents
       /\ agents_by_id_' = S.ids
       /\ pending_restarts_' = SelectSeq(pending_restarts_, NotDue)
       /\ launch_failed' = launch_failed \cup (due \ started)
       /\ restart_states_' =
              [n \in DOMAIN restart_states_ |->
                  IF n \in started
                  THEN [restart_states_[n] EXCEPT !.consecutive_failures = 0,
                                                  !.restart_count = 0]
                  ELSE restart_states_[n]]
       /\ UNCHANGED <<saved_configs_, restart_events, window_failures, killed>>
       /\ UNCHANGED <<kernelVars, req, resp, asyncVars, worldVars, fsVars, lockVars, tunnelVars>>

\* AgentManager::process_pending_restarts with a restart that is due; started
\* is the set of names whose AgentProcess::start succeeds.
process_pending_restarts(started) ==
    LET Due(p) == now * 1000 >= p.scheduled_time
        NotDue(p) == ~Due(p)
        due == {pending_restarts_[i].agent_name :
                    i \in {j \in DOMAIN pending_restarts_ : Due(pending_restarts_[j])}}
        S == restart_loop(Supervisor(agents_by_name_, agents_by_id_, saved_configs_,
                                     restart_states_, pending_restarts_, restart_events),
                          SelectSeq(pending_restarts_, Due), 1, started)
    IN /\ due # {}
       /\ started \subseteq due
       /\ agents_by_name_' = S.agents
       /\ agents_by_id_' = S.ids
       /\ pending_restarts_' = SelectSeq(pending_restarts_, NotDue)
       /\ launch_failed' = launch_failed \cup (due \ started)
       /\ UNCHANGED <<saved_configs_, restart_states_, restart_events, window_failures,
                      killed>>
       /\ UNCHANGED <<kernelVars, req, resp, asyncVars, worldVars, fsVars, lockVars, tunnelVars>>

\* The steady clock advances between two ticks of the supervisor.
SupTick ==
    /\ now < ClockStart + MaxSupTicks * TickSecs
    /\ now' = now + TickSecs
    /\ UNCHANGED <<store_, subscriptions_, queues_, ipcVars, purged, req, resp>>
    /\ UNCHANGED restVars

(***************************************************************************)
(* WorldEngine: worlds_, agent_to_world_ and next_world_num_.  Of a World  *)
(* the model keeps name_, agents_, the virtual file system and the chaos   *)
(* engine; the network mock plays no part in what follows.  A snapshot is  *)
(* the JSON object World::to_json builds, with the member set as an array. *)
(***************************************************************************)
FirstWorldNum == 1
MaxSafeName == 32
UpperCase == "ABCDEFGHIJKLMNOPQRSTUVWXYZ"
LowerCase == "abcdefghijklmnopqrstuvwxyz"
Digits == "0123456789"

CharAt(s, i) == SubSeq(s, i, i)

\* The position of the character c in s, or 0.
IndexOf(s, c) ==
    IF \E i \in 1..Len(s) : CharAt(s, i) = c
    THEN CHOOSE i \in 1..Len(s) : CharAt(s, i) = c
    ELSE 0

\* std::tolower of one character.
tolower(c) ==
    IF IndexOf(UpperCase, c) # 0 THEN CharAt(LowerCase, IndexOf(UpperCase, c)) ELSE c

\* std::isalnum of one character.
isalnum(c) ==
    IndexOf(UpperCase, c) # 0 \/ IndexOf(LowerCase, c) # 0 \/ IndexOf(Digits, c) # 0

\* The sanitising loop of generate_world_id.
RECURSIVE safe_name_loop(_, _)
safe_name_loop(name, i) ==
    IF i > Len(name) THEN ""
    ELSE LET c == CharAt(name, i)
             kept == IF isalnum(c) \/ c = "-" \/ c = "_" THEN tolower(c)
                     ELSE IF c = " " THEN "-"
                     ELSE ""
         IN kept \o safe_name_loop(name, i + 1)

\* std::setfill('0') << std::setw(4) << n
setw4(n) ==
    LET digits == ToString(n)
    IN IF Len(digits) >= 4 THEN digits
       ELSE SubSeq("0000", 1, 4 - Len(digits)) \o digits

\* WorldEngine::generate_world_id, for the counter value num.
generate_world_id(name, num) ==
    LET sanitized == safe_name_loop(name, 1)
        nonempty == IF sanitized = "" THEN "world" ELSE sanitized
        safe_name == IF Len(nonempty) > MaxSafeName
                     THEN SubSeq(nonempty, 1, MaxSafeName) ELSE nonempty
    IN safe_name \o "-" \o setw4(num)

\* A std::set<uint32_t> as the JSON array of its elements, in ascending order.
RECURSIVE SetToArray(_)
SetToArray(s) ==
    IF s = {} THEN <<>>
    ELSE LET least == CHOOSE x \in s : \A y \in s : x <= y
         IN <<least>> \o SetToArray(s \ {least})

(***************************************************************************)
(* VirtualFilesystem: files_ (normalized path -> content and mode) and the *)
(* three pattern lists.  The time stamps of a file and the read and write  *)
(* counters are left out: no operation below reads them.                   *)
(***************************************************************************)
VirtualFile(content, mode) == [content |-> content, mode |-> mode]

EmptyVfs ==
    [files |-> EmptyMap, readonly_patterns |-> <<>>, writable_patterns |-> <<>>,
     intercept_patterns |-> <<>>]

\* The loop of normalize_path over the characters of path: parts is the
\* stack of path components, part the component being read.
RECURSIVE normalize_loop(_, _, _, _)
normalize_loop(path, i, parts, part) ==
    LET closed == IF part = "" \/ part = "." THEN parts
                  ELSE IF part = ".."
                       THEN IF parts = <<>> THEN parts ELSE SubSeq(parts, 1, Len(parts) - 1)
                       ELSE Append(parts, part)
    IN IF i > Len(path) THEN closed
       ELSE IF CharAt(path, i) = "/" THEN normalize_loop(path, i + 1, closed, "")
       ELSE normalize_loop(path, i + 1, parts, part \o CharAt(path, i))

\* The rebuilding loop of normalize_path.
RECURSIVE join_parts(_, _)
join_parts(parts, i) ==
    IF i > Len(parts) THEN ""
    ELSE parts[i] \o (IF i < Len(parts) THEN "/" ELSE "") \o join_parts(parts, i + 1)

\* VirtualFilesystem::normalize_path
normalize_path(path) ==
    IF path = "" THEN "/"
    ELSE "/" \o join_parts(normalize_loop(path, 1, <<>>, ""), 1)

\* VirtualFilesystem::matches_pattern: the pattern is turned into a regular
\* expression, "**" into ".*", "*" into "[^/]*", "?" into "[^/]", every other
\* character into itself, and the whole path is matched without regard to
\* case.  glob_match(path, i, pattern, j) matches the path from i against
\* the pattern from j.
RECURSIVE glob_match(_, _, _, _)
glob_match(path, i, pattern, j) ==
    IF j > Len(pattern) THEN i > Len(path)
    ELSE LET c == CharAt(pattern, j)
         IN IF c = "*"
            THEN IF j + 1 <= Len(pattern) /\ CharAt(pattern, j + 1) = "*"
                 THEN \E k \in i..(Len(path) + 1) : glob_match(path, k, pattern, j + 2)
                 ELSE \E k \in i..(Len(path) + 1) :
                          /\ \A m \in i..(k - 1) : CharAt(path, m) # "/"
                          /\ glob_match(path, k, pattern, j + 1)
            ELSE IF c = "?"
            THEN /\ i <= Len(path)
                 /\ CharAt(path, i) # "/"
                 /\ glob_match(path, i + 1, pattern, j + 1)
            ELSE /\ i <= Len(path)
                 /\ tolower(CharAt(path, i)) = tolower(c)
                 /\ glob_match(path, i + 1, pattern, j + 1)

matches_pattern(path, pattern) == glob_match(path, 1, pattern, 1)

\* VirtualFilesystem::matches_any
matches_any(path, patterns) ==
    \E i \in DOMAIN patterns : matches_pattern(path, patterns[i])

\* One entry of "initial_files": a string, or an object with content and mode.
FileConfig(content, mode) == [content |-> content, mode |-> mode]

\* The loop of VirtualFilesystem::configure over "initial_files", an object
\* whose entries are visited in the order of their keys.
RECURSIVE initial_files_loop(_, _, _)
initial_files_loop(files, initial_files, i) ==
    IF i > Len(initial_files) THEN files
    ELSE LET path == initial_files[i][1]
             file_config == initial_files[i][2]
         IN initial_files_loop(
                MapPut(files, normalize_path(path),
                       VirtualFile(file_config.content, ValueOr(file_config.mode, "rw"))),
                initial_files, i + 1)

\* The "virtual_filesystem" object of a world's configuration.
VfsConfig(initial_files, readonly_patterns, writable_patterns, intercept_patterns) ==
    [initial_files |-> initial_files, readonly_patterns |-> readonly_patterns,
     writable_patterns |-> writable_patterns, intercept_patterns |-> intercept_patterns]

\* VirtualFilesystem::configure, on a filesystem that may hold something.
VirtualFilesystem_configure(vfs, config) ==
    LET files == initial_files_loop(vfs.files, config.initial_files, 1)
        readonly == vfs.readonly_patterns \o config.readonly_patterns
        writable == vfs.writable_patterns \o config.writable_patterns
    IN [files |-> files,
        readonly_patterns |-> readonly,
        writable_patterns |-> writable,
        intercept_patterns |->
            IF config.intercept_patterns # {}
            THEN vfs.intercept_patterns \o The(config.intercept_patterns)
            ELSE IF files # EmptyMap \/ readonly # <<>> \/ writable # <<>>
                 THEN Append(vfs.intercept_patterns, "/**")
                 ELSE vfs.intercept_patterns]

\* VirtualFilesystem::is_enabled
is_enabled(vfs) ==
    \/ vfs.files # EmptyMap
    \/ vfs.readonly_patterns # <<>>
    \/ vfs.writable_patterns # <<>>
    \/ vfs.intercept_patterns # <<>>

NoContent == {}

\* VirtualFilesystem::read: the content, or nothing.
VirtualFilesystem_read(vfs, path) ==
    LET normalized == normalize_path(path)
    IN IF normalized \in DOMAIN vfs.files THEN {vfs.files[normalized].content}
       ELSE NoContent

\* Fault: the mode of the file is not looked at.
VirtualFilesystem_write_any(vfs, path, content, append) ==
    LET normalized == normalize_path(path)
        found == normalized \in DOMAIN vfs.files
    IN IF ~found /\ ~matches_any(normalized, vfs.writable_patterns)
                 /\ vfs.writable_patterns # <<>>
       THEN [ok |-> FALSE, vfs |-> vfs]
       ELSE [ok |-> TRUE,
             vfs |-> [vfs EXCEPT !.files =
                        MapPut(vfs.files, normalized,
                               IF ~found THEN VirtualFile(content, "rw")
                               ELSE [vfs.files[normalized] EXCEPT !.content =
                                        IF append THEN @ \o content ELSE content])]]

\* VirtualFilesystem::write: whether it succeeded, and the filesystem after it.
VirtualFilesystem_write(vfs, path, content, append) ==
    LET normalized == normalize_path(path)
        found == normalized \in DOMAIN vfs.files
    IN IF found /\ vfs.files[normalized].mode = "r"
       THEN [ok |-> FALSE, vfs |-> vfs]
       ELSE IF ~matches_any(normalized, vfs.writable_patterns) /\ ~found
                 /\ vfs.writable_patterns # <<>>
       THEN [ok |-> FALSE, vfs |-> vfs]
       ELSE [ok |-> TRUE,
             vfs |-> [vfs EXCEPT !.files =
                        MapPut(vfs.files, normalized,
                               IF ~found THEN VirtualFile(content, "rw")
                               ELSE [vfs.files[normalized] EXCEPT !.content =
                                        IF append THEN @ \o content ELSE content])]]

\* Fault: a file is removed whatever its mode.
VirtualFilesystem_remove_any(vfs, path) ==
    LET normalized == normalize_path(path)
    IN IF normalized \notin DOMAIN vfs.files THEN [ok |-> FALSE, vfs |-> vfs]
       ELSE [ok |-> TRUE, vfs |-> [vfs EXCEPT !.files = MapErase(vfs.files, normalized)]]

\* VirtualFilesystem::remove
VirtualFilesystem_remove(vfs, path) ==
    LET normalized == normalize_path(path)
    IN IF normalized \notin DOMAIN vfs.files THEN [ok |-> FALSE, vfs |-> vfs]
       ELSE IF vfs.files[normalized].mode = "r" THEN [ok |-> FALSE, vfs |-> vfs]
       ELSE [ok |-> TRUE, vfs |-> [vfs EXCEPT !.files = MapErase(vfs.files, normalized)]]

\* VirtualFilesystem::list: the paths the pattern selects.  The code returns
\* them sorted; the model keeps them as a set.
VirtualFilesystem_list(vfs, pattern) ==
    {path \in DOMAIN vfs.files :
        pattern = "*" \/ pattern = "/**" \/ matches_pattern(path, pattern)}

\* VirtualFilesystem::stat, without the time stamps: the mode, or nothing.
VirtualFilesystem_mode(vfs, path) ==
    LET normalized == normalize_path(path)
    IN IF normalized \in DOMAIN vfs.files THEN {vfs.files[normalized].mode} ELSE {}

\* VirtualFilesystem::is_writable
is_writable(vfs, path) ==
    LET normalized == normalize_path(path)
    IN IF normalized \in DOMAIN vfs.files THEN vfs.files[normalized].mode # "r"
       ELSE IF vfs.writable_patterns = <<>> THEN TRUE
       ELSE matches_any(normalized, vfs.writable_patterns)

\* VirtualFilesystem::should_intercept
should_intercept(vfs, path) ==
    LET normalized == normalize_path(path)
    IN normalized \in DOMAIN vfs.files \/ matches_any(normalized, vfs.intercept_patterns)

\* Fault: the content of the files is not written to the snapshot.
VirtualFilesystem_to_json_blank(vfs) ==
    [files |-> [p \in DOMAIN vfs.files |->
                   [content |-> {}, mode |-> {vfs.files[p].mode}]],
     readonly_patterns |-> vfs.readonly_patterns,
     writable_patterns |-> vfs.writable_patterns,
     intercept_patterns |-> vfs.intercept_patterns]

\* VirtualFilesystem::to_json, without the time stamps.
VirtualFilesystem_to_json(vfs) ==
    [files |-> [p \in DOMAIN vfs.files |->
                   [content |-> {vfs.files[p].content}, mode |-> {vfs.files[p].mode}]],
     readonly_patterns |-> vfs.readonly_patterns,
     writable_patterns |-> vfs.writable_patterns,
     intercept_patterns |-> vfs.intercept_patterns]

\* VirtualFilesystem::from_json: the keys of "files" are taken as they are.
VirtualFilesystem_from_json(j) ==
    [files |-> [p \in DOMAIN j.files |->
                   VirtualFile(ValueOr(j.files[p].content, ""),
                               ValueOr(j.files[p].mode, "rw"))],
     readonly_patterns |-> j.readonly_patterns,
     writable_patterns |-> j.writable_patterns,
     intercept_patterns |-> j.intercept_patterns]


(***************************************************************************)
(* ChaosEngine.  A probability is kept in percent.  The random numbers the *)
(* engine draws are an input: draws[i] says whether the draw made for rule *)
(* i came out below the rule's probability, and the draw after the last    *)
(* rule is the one for the global failure rate.  The counters of injected  *)
(* failures, the latency and the parameters of the events are left out.    *)
(***************************************************************************)
ChaosRule(type, pattern, probability) ==
    [type |-> type, pattern |-> pattern, probability |-> probability]

\* A newly constructed ChaosEngine.
NoChaos == [enabled |-> FALSE, failure_rate |-> 0, rules |-> <<>>, active_events |-> {}]

\* The "chaos" object of a world's config.
ChaosConfig(enabled, failure_rate, rules) ==
    [enabled |-> enabled, failure_rate |-> failure_rate, rules |-> rules]

\* ChaosEngine::configure: the active events are left as they are.
ChaosEngine_configure(engine, config) ==
    [engine EXCEPT !.enabled = config.enabled,
                   !.failure_rate = config.failure_rate,
                   !.rules = config.rules]

\* ChaosEngine::should_fail; draw is the outcome of dist(rng_) < probability.
should_fail(probability, draw) ==
    IF probability <= 0 THEN FALSE
    ELSE IF probability >= 100 THEN TRUE
    ELSE draw

\* The regular expression of ChaosEngine::matches_pattern: "**" is ".*", "*"
\* is "[^/]*", every other character stands for itself, without regard to
\* case.
RECURSIVE chaos_glob(_, _, _, _)
chaos_glob(str, i, pattern, j) ==
    IF j > Len(pattern) THEN i > Len(str)
    ELSE LET c == CharAt(pattern, j)
         IN IF c = "*"
            THEN IF j + 1 <= Len(pattern) /\ CharAt(pattern, j + 1) = "*"
                 THEN \E k \in i..(Len(str) + 1) : chaos_glob(str, k, pattern, j + 2)
                 ELSE \E k \in i..(Len(str) + 1) :
                          /\ \A m \in i..(k - 1) : CharAt(str, m) # "/"
                          /\ chaos_glob(str, k, pattern, j + 1)
            ELSE /\ i <= Len(str)
                 /\ tolower(CharAt(str, i)) = tolower(c)
                 /\ chaos_glob(str, i + 1, pattern, j + 1)

\* ChaosEngine::matches_pattern
ChaosEngine_matches_pattern(str, pattern) ==
    IF pattern = "*" \/ pattern = "**" THEN TRUE
    ELSE chaos_glob(str, 1, pattern, 1)

\* The loop over the rules: a rule of one of the types that matches and
\* whose draw fires.
rule_fires(engine, types, str, draws) ==
    \E i \in DOMAIN engine.rules :
        /\ engine.rules[i].type \in types
        /\ ChaosEngine_matches_pattern(str, engine.rules[i].pattern)
        /\ should_fail(engine.rules[i].probability, draws[i])

\* Fault: the rules and the rate are asked before the active events.
should_fail_kind_rules_first(engine, events, types, str, draws) ==
    IF ~engine.enabled THEN FALSE
    ELSE IF engine.rules # <<>> THEN rule_fires(engine, types, str, draws)
    ELSE IF engine.failure_rate > 0
    THEN should_fail(engine.failure_rate, draws[Len(engine.rules) + 1])
    ELSE engine.active_events \cap events # {}

\* The body shared by should_fail_read, should_fail_write and
\* should_fail_network: events are the active events of the operation kind,
\* types the rule types of it.
should_fail_kind(engine, events, types, str, draws) ==
    IF ~engine.enabled THEN FALSE
    ELSE IF engine.active_events \cap events # {} THEN TRUE
    ELSE IF rule_fires(engine, types, str, draws) THEN TRUE
    ELSE should_fail(engine.failure_rate, draws[Len(engine.rules) + 1])

\* ChaosEngine::should_fail_read
should_fail_read(engine, path, draws) ==
    should_fail_kind(engine, {"disk_fail"}, {"file_read_fail"}, path, draws)

\* ChaosEngine::should_fail_write
should_fail_write(engine, path, draws) ==
    should_fail_kind(engine, {"disk_full", "disk_fail"}, {"file_write_fail"}, path, draws)

\* ChaosEngine::should_fail_network
should_fail_network(engine, url, draws) ==
    should_fail_kind(engine, {"network_partition"}, {"network_timeout", "network_fail"},
                     url, draws)

\* ChaosEngine::inject_event
ChaosEngine_inject_event(engine, event_type) ==
    [engine EXCEPT !.active_events = @ \cup {event_type}]

\* ChaosEngine::to_json
ChaosEngine_to_json(engine) ==
    [enabled |-> engine.enabled, failure_rate |-> engine.failure_rate,
     rules |-> [i \in DOMAIN engine.rules |->
                   [type |-> engine.rules[i].type, pattern |-> engine.rules[i].pattern,
                    probability |-> engine.rules[i].probability]],
     active_events |-> engine.active_events]

\* ChaosEngine::from_json
ChaosEngine_from_json(j) ==
    [enabled |-> j.enabled, failure_rate |-> j.failure_rate,
     rules |-> [i \in DOMAIN j.rules |->
                   ChaosRule(j.rules[i].type, j.rules[i].pattern, j.rules[i].probability)],
     active_events |-> j.active_events]

\* The "config" object of WORLD_CREATE: "virtual_filesystem" and "chaos" are
\* read here.
WorldConfig(virtual_filesystem, chaos) ==
    [virtual_filesystem |-> virtual_filesystem, chaos |-> chaos]

NoConfig == WorldConfig({}, {})

\* World::World followed by World::configure with a config that has no name.
NewWorld(id, config) ==
    [name |-> id, agents |-> {},
     vfs |-> IF config.virtual_filesystem = {} THEN EmptyVfs
             ELSE VirtualFilesystem_configure(EmptyVfs, The(config.virtual_filesystem)),
     chaos |-> IF config.chaos = {} THEN NoChaos
               ELSE ChaosEngine_configure(NoChaos, The(config.chaos))]

\* World::to_json
World_to_json(id, world) ==
    [id |-> id, name |-> world.name, vfs |-> VirtualFilesystem_to_json(world.vfs),
     chaos |-> ChaosEngine_to_json(world.chaos), agents |-> SetToArray(world.agents)]

\* World::from_json on a freshly constructed World.
World_from_json(j) ==
    [name |-> j.name, agents |-> {j.agents[i] : i \in DOMAIN j.agents},
     vfs |-> VirtualFilesystem_from_json(j.vfs),
     chaos |-> ChaosEngine_from_json(j.chaos)]

NoSnapshot ==
    [id |-> "", name |-> "", vfs |-> VirtualFilesystem_to_json(EmptyVfs),
     chaos |-> ChaosEngine_to_json(NoChaos), agents |-> <<>>]

\* WorldEngine::create_world
create_world(name, config) ==
    LET id == generate_world_id(name, next_world_num_)
    IN /\ next_world_num_' = next_world_num_ + 1
       /\ worlds_' = MapPut(worlds_, id, NewWorld(id, config))
       /\ UNCHANGED agent_to_world_
       /\ resp' = [op |-> "WORLD_CREATE", agent_id |-> 0, success |-> TRUE,
                   world_id |-> id]

\* Fault: the mappings of the members survive the world.
destroy_keeps_mappings(world_id, force) ==
    IF world_id \notin DOMAIN worlds_ THEN [ok |-> FALSE, worlds |-> worlds_,
                                            agent_to_world |-> agent_to_world_]
    ELSE IF ~force /\ Cardinality(worlds_[world_id].agents) > 0
    THEN [ok |-> FALSE, worlds |-> worlds_, agent_to_world |-> agent_to_world_]
    ELSE [ok |-> TRUE, worlds |-> MapErase(worlds_, world_id),
          agent_to_world |-> agent_to_world_]

\* WorldEngine::destroy_world: its return value and the engine after it.
destroy_world(world_id, force) ==
    IF world_id \notin DOMAIN worlds_ THEN [ok |-> FALSE, worlds |-> worlds_,
                                            agent_to_world |-> agent_to_world_]
    ELSE IF ~force /\ Cardinality(worlds_[world_id].agents) > 0
    THEN [ok |-> FALSE, worlds |-> worlds_, agent_to_world |-> agent_to_world_]
    ELSE [ok |-> TRUE, worlds |-> MapErase(worlds_, world_id),
          agent_to_world |->
              [a \in DOMAIN agent_to_world_ \ worlds_[world_id].agents |->
                  agent_to_world_[a]]]

DestroyPayload(world_id, force) == [valid |-> TRUE, world_id |-> world_id, force |-> force]

\* WorldSyscalls::handle_world_destroy
handle_world_destroy(agent_id, p) ==
    IF ~p.valid
    THEN /\ resp' = InvalidRequest(agent_id, "WORLD_DESTROY")
         /\ UNCHANGED <<worlds_, agent_to_world_>>
    ELSE LET world_id == ValueOr(p.world_id, "")
             force == ValueOr(p.force, FALSE)
         IN IF world_id = ""
            THEN /\ resp' = [op |-> "WORLD_DESTROY", agent_id |-> agent_id,
                             success |-> FALSE, error |-> "world_id required"]
                 /\ UNCHANGED <<worlds_, agent_to_world_>>
            ELSE LET d == destroy_world(world_id, force)
                 IN /\ worlds_' = d.worlds
                    /\ agent_to_world_' = d.agent_to_world
                    /\ resp' = IF d.ok
                               THEN [op |-> "WORLD_DESTROY", agent_id |-> agent_id,
                                     success |-> TRUE, world_id |-> world_id]
                               ELSE [op |-> "WORLD_DESTROY", agent_id |-> agent_id,
                                     success |-> FALSE,
                                     error |-> "Failed to destroy world (not found or has active agents)"]

\* WorldEngine::is_agent_in_world
is_agent_in_world(a2w, agent_id) == agent_id \in DOMAIN a2w

\* The two refusals of WorldEngine::join_world.
join_refused(a2w, worlds, agent_id, world_id) ==
    agent_id \in DOMAIN a2w \/ world_id \notin DOMAIN worlds

\* WorldEngine::join_world, with the response handle_world_join builds from it.
join_world(agent_id, world_id) ==
    IF join_refused(agent_to_world_, worlds_, agent_id, world_id)
    THEN /\ UNCHANGED <<worlds_, agent_to_world_>>
         /\ resp' = [op |-> "WORLD_JOIN", agent_id |-> agent_id, success |-> FALSE,
                     error |-> "Failed to join world (not found or already in a world)"]
    ELSE /\ worlds_' = [worlds_ EXCEPT ![world_id].agents = @ \cup {agent_id}]
         /\ agent_to_world_' = MapPut(agent_to_world_, agent_id, world_id)
         /\ resp' = [op |-> "WORLD_JOIN", agent_id |-> agent_id, success |-> TRUE,
                     world_id |-> world_id]

\* WorldEngine::leave_world, with the response handle_world_leave builds from it.
leave_world(agent_id) ==
    IF agent_id \notin DOMAIN agent_to_world_
    THEN /\ UNCHANGED <<worlds_, agent_to_world_>>
         /\ resp' = [op |-> "WORLD_LEAVE", agent_id |-> agent_id, success |-> FALSE,
                     error |-> "Not in any world"]
    ELSE LET world_id == agent_to_world_[agent_id]
         IN /\ agent_to_world_' = MapErase(agent_to_world_, agent_id)
            /\ worlds_' = IF world_id \in DOMAIN worlds_
                          THEN [worlds_ EXCEPT ![world_id].agents = @ \ {agent_id}]
                          ELSE worlds_
            /\ resp' = [op |-> "WORLD_LEAVE", agent_id |-> agent_id, success |-> TRUE]

\* WorldEngine::snapshot_world; the caller keeps the snapshot it is given.
snapshot_world(world_id) ==
    /\ UNCHANGED <<worlds_, agent_to_world_, next_world_num_>>
    /\ IF world_id \notin DOMAIN worlds_
       THEN /\ UNCHANGED snapshot
            /\ resp' = [op |-> "WORLD_SNAPSHOT", agent_id |-> 0, success |-> FALSE,
                        error |-> "World not found"]
       ELSE /\ snapshot' = World_to_json(world_id, worlds_[world_id])
            /\ resp' = [op |-> "WORLD_SNAPSHOT", agent_id |-> 0, success |-> TRUE,
                        world_id |-> world_id]

\* WorldEngine::restore_world
restore_world(j, new_world_id) ==
    LET id == IF new_world_id = "" THEN generate_world_id(j.name, next_world_num_)
              ELSE new_world_id
    IN /\ next_world_num_' = IF new_world_id = "" THEN next_world_num_ + 1
                             ELSE next_world_num_
       /\ UNCHANGED agent_to_world_
       /\ IF id \in DOMAIN worlds_
          THEN /\ UNCHANGED worlds_
               /\ resp' = [op |-> "WORLD_RESTORE", agent_id |-> 0, success |-> FALSE,
                           error |-> "Failed to restore world"]
          ELSE /\ worlds_' = MapPut(worlds_, id, World_from_json(j))
               /\ resp' = [op |-> "WORLD_RESTORE", agent_id |-> 0, success |-> TRUE,
                           world_id |-> id]

\* The payload of WORLD_EVENT.
EventPayload(world_id, event_type) ==
    [valid |-> TRUE, world_id |-> world_id, event_type |-> event_type]

\* WorldSyscalls::handle_world_event with WorldEngine::inject_event
handle_world_event(agent_id, p) ==
    LET world_id == ValueOr(p.world_id, "")
        event_type == ValueOr(p.event_type, "")
        Error(error) == [op |-> "WORLD_EVENT", agent_id |-> agent_id, success |-> FALSE,
                         error |-> error]
    IN IF ~p.valid
       THEN /\ resp' = Error("invalid request")
            /\ UNCHANGED worlds_
       ELSE IF world_id = ""
       THEN /\ resp' = Error("world_id required")
            /\ UNCHANGED worlds_
       ELSE IF event_type = ""
       THEN /\ resp' = Error("event_type required")
            /\ UNCHANGED worlds_
       ELSE IF world_id \notin DOMAIN worlds_
       THEN /\ resp' = Error("Failed to inject event (world not found)")
            /\ UNCHANGED worlds_
       ELSE /\ worlds_' = [worlds_ EXCEPT
                              ![world_id].chaos = ChaosEngine_inject_event(@, event_type)]
            /\ resp' = [op |-> "WORLD_EVENT", agent_id |-> agent_id, success |-> TRUE,
                        world_id |-> world_id, event_type |-> event_type]

\* What the world requests leave alone.
notWorldVars ==
    <<store_, now, subscriptions_, queues_, ipcVars, purged, asyncVars, supVars, fsVars, lockVars, tunnelVars>>

\* WORLD_CREATE, while the counter of world ids is at most max.
WorldCreateUpTo(name, config, max) ==
    /\ next_world_num_ <= max
    /\ create_world(name, config)
    /\ req' = Request("WORLD_CREATE", 0, name)
    /\ UNCHANGED <<snapshot, notWorldVars>>

WorldCreateRequest(name, config) == WorldCreateUpTo(name, config, MaxWorlds)

WorldDestroyRequest(agent_id, p) ==
    /\ handle_world_destroy(agent_id, p)
    /\ req' = [op |-> "WORLD_DESTROY", agent_id |-> agent_id, arg |-> p]
    /\ UNCHANGED <<next_world_num_, snapshot, notWorldVars>>

WorldEventRequest(agent_id, p) ==
    /\ handle_world_event(agent_id, p)
    /\ req' = [op |-> "WORLD_EVENT", agent_id |-> agent_id, arg |-> p]
    /\ UNCHANGED <<agent_to_world_, next_world_num_, snapshot, notWorldVars>>

\* The host asks the chaos engine of a world whether a network operation on
\* url is to fail; the answer is kept as the response.
NetworkQuery(world_id, url, draws) ==
    /\ world_id \in DOMAIN worlds_
    /\ req' = [op |-> "should_fail_network", agent_id |-> 0, arg |-> <<world_id, url>>]
    /\ resp' = [op |-> "should_fail_network", agent_id |-> 0,
                success |-> ~should_fail_network(worlds_[world_id].chaos, url, draws)]
    /\ UNCHANGED <<worldVars, notWorldVars>>

WorldJoinRequest(agent_id, world_id) ==
    /\ join_world(agent_id, world_id)
    /\ req' = Request("WORLD_JOIN", agent_id, world_id)
    /\ UNCHANGED <<next_world_num_, snapshot, notWorldVars>>

WorldLeaveRequest(agent_id) ==
    /\ leave_world(agent_id)
    /\ req' = Request("WORLD_LEAVE", agent_id, "")
    /\ UNCHANGED <<next_world_num_, snapshot, notWorldVars>>

WorldSnapshotRequest(world_id) ==
    /\ snapshot_world(world_id)
    /\ req' = Request("WORLD_SNAPSHOT", 0, world_id)
    /\ UNCHANGED notWorldVars

WorldRestoreRequest(new_world_id) ==
    /\ snapshot # NoSnapshot
    /\ new_world_id = "" => next_world_num_ <= MaxWorlds
    /\ restore_world(snapshot, new_world_id)
    /\ req' = Request("WORLD_RESTORE", 0, new_world_id)
    /\ UNCHANGED <<snapshot, notWorldVars>>

(***************************************************************************)
(* The permission record of an agent.  Of its capability set the model     *)
(* keeps can_spawn and the two path predicates, each a switch and an       *)
(* allow-list of paths in which the empty list allows every path.          *)
(***************************************************************************)
AgentPermissions(level, can_spawn, can_read, can_write, allowed_paths) ==
    [level |-> level, can_spawn |-> can_spawn, can_read |-> can_read,
     can_write |-> can_write, allowed_paths |-> allowed_paths]

\* AgentPermissions::from_level
from_level(level) ==
    CASE level = "UNRESTRICTED" -> AgentPermissions(level, TRUE, TRUE, TRUE, {})
      [] level = "STANDARD" -> AgentPermissions(level, FALSE, TRUE, TRUE, {})
      [] level = "SANDBOXED" -> AgentPermissions(level, FALSE, TRUE, TRUE, {})
      [] level = "READONLY" -> AgentPermissions(level, FALSE, TRUE, FALSE, {})
      [] OTHER -> AgentPermissions("MINIMAL", FALSE, FALSE, FALSE, {})

\* AgentPermissions::from_json on the "permissions" object of SET_PERMS.
AgentPermissions_from_json(j) ==
    AgentPermissions("CUSTOM", ValueOr(j.can_spawn, FALSE), ValueOr(j.can_read, TRUE),
                     ValueOr(j.can_write, TRUE), ValueOr(j.allowed_paths, {}))

can_read_path(perms, path) ==
    perms.can_read /\ (perms.allowed_paths = {} \/ path \in perms.allowed_paths)

can_write_path(perms, path) ==
    perms.can_write /\ (perms.allowed_paths = {} \/ path \in perms.allowed_paths)

\* PermissionsStore::get_or_create: the store after the call.
get_or_create(permissions, agent_id) ==
    IF agent_id \in DOMAIN permissions THEN permissions
    ELSE MapPut(permissions, agent_id, from_level("STANDARD"))

\* PermissionsStore::set_permissions
set_permissions(permissions, agent_id, perms) == MapPut(permissions, agent_id, perms)

\* PermissionsStore::set_level
set_level(permissions, agent_id, level) == MapPut(permissions, agent_id, from_level(level))

(***************************************************************************)
(* READ and WRITE.  real_fs_ is the filesystem of the host, path to        *)
(* content; fs_served records which filesystem the last request was served *)
(* from: the host's, or the virtual filesystem of a world.  The random     *)
(* draws of the world's chaos engine are an input.                         *)
(***************************************************************************)
ServedByNone == [real |-> FALSE, vfs |-> {}]
ServedByReal == [real |-> TRUE, vfs |-> {}]
ServedByVfs(world_id) == [real |-> FALSE, vfs |-> {world_id}]

FsPayload(path, content, mode) ==
    [valid |-> TRUE, path |-> path, content |-> content, mode |-> mode]

\* Fault: no request is handed to a virtual filesystem.
intercepting_world_none(agent_id, p) == {}

\* The world whose virtual filesystem takes the request, if any: the test at
\* the head of handle_read and handle_write.
intercepting_world(agent_id, p) ==
    IF ~is_agent_in_world(agent_to_world_, agent_id) THEN {}
    ELSE LET world_id == agent_to_world_[agent_id]
         IN IF world_id \notin DOMAIN worlds_ THEN {}
            ELSE IF ~is_enabled(worlds_[world_id].vfs) THEN {}
            ELSE IF ~p.valid THEN {}
            ELSE IF should_intercept(worlds_[world_id].vfs, ValueOr(p.path, ""))
                 THEN {world_id} ELSE {}

FsError(op, agent_id, error) ==
    [op |-> op, agent_id |-> agent_id, success |-> FALSE, error |-> error,
     content |-> ""]

VirtualError(op, agent_id, error, world_id) ==
    [op |-> op, agent_id |-> agent_id, success |-> FALSE, error |-> error,
     content |-> "", world |-> world_id]

\* FileSyscalls::handle_read_virtual
handle_read_virtual(agent_id, p, world_id, draws) ==
    LET path == ValueOr(p.path, "")
        content_opt == VirtualFilesystem_read(worlds_[world_id].vfs, path)
    IN /\ UNCHANGED <<worlds_, real_fs_, permissions_>>
       /\ IF should_fail_read(worlds_[world_id].chaos, path, draws)
          THEN /\ resp' = VirtualError("READ", agent_id,
                                       "Simulated read failure (chaos)", world_id)
               /\ fs_served' = ServedByNone
          ELSE /\ fs_served' = ServedByVfs(world_id)
               /\ resp' = IF content_opt = NoContent
                          THEN VirtualError("READ", agent_id,
                                            "File not found in virtual filesystem",
                                            world_id)
                          ELSE [op |-> "READ", agent_id |-> agent_id, success |-> TRUE,
                                content |-> The(content_opt), world |-> world_id,
                                virtual |-> TRUE]

\* FileSyscalls::handle_read
handle_read(agent_id, p, draws) ==
    LET world == intercepting_world(agent_id, p)
    IN IF world # {} THEN handle_read_virtual(agent_id, p, The(world), draws)
       ELSE LET permissions == get_or_create(permissions_, agent_id)
                perms == permissions[agent_id]
                path == ValueOr(p.path, "")
            IN /\ permissions_' = permissions
               /\ UNCHANGED <<worlds_, real_fs_>>
               /\ IF ~p.valid
                  THEN /\ resp' = FsError("READ", agent_id, "invalid request")
                       /\ fs_served' = ServedByNone
                  ELSE IF path = ""
                  THEN /\ resp' = FsError("READ", agent_id, "path required")
                       /\ fs_served' = ServedByNone
                  ELSE IF ~can_read_path(perms, path)
                  THEN /\ resp' = FsError("READ", agent_id,
                                          "Permission denied: path not allowed for reading")
                       /\ fs_served' = ServedByNone
                  ELSE /\ fs_served' = ServedByReal
                       /\ resp' = IF path \notin DOMAIN real_fs_
                                  THEN FsError("READ", agent_id, "failed to open file")
                                  ELSE [op |-> "READ", agent_id |-> agent_id,
                                        success |-> TRUE, content |-> real_fs_[path]]

\* FileSyscalls::handle_write_virtual
handle_write_virtual(agent_id, p, world_id, draws) ==
    LET path == ValueOr(p.path, "")
        content == ValueOr(p.content, "")
        mode == ValueOr(p.mode, "write")
        w == VirtualFilesystem_write(worlds_[world_id].vfs, path, content, mode = "append")
    IN /\ UNCHANGED <<real_fs_, permissions_>>
       /\ IF should_fail_write(worlds_[world_id].chaos, path, draws)
          THEN /\ resp' = VirtualError("WRITE", agent_id,
                                       "Simulated write failure (chaos)", world_id)
               /\ fs_served' = ServedByNone
               /\ UNCHANGED worlds_
          ELSE /\ fs_served' = ServedByVfs(world_id)
               /\ worlds_' = [worlds_ EXCEPT ![world_id].vfs = w.vfs]
               /\ resp' = IF ~w.ok
                          THEN VirtualError("WRITE", agent_id,
                                            "Virtual filesystem write denied", world_id)
                          ELSE [op |-> "WRITE", agent_id |-> agent_id, success |-> TRUE,
                                content |-> content, world |-> world_id,
                                virtual |-> TRUE]

\* FileSyscalls::handle_write; the host's file can be opened for writing.
handle_write(agent_id, p, draws) ==
    LET world == intercepting_world(agent_id, p)
    IN IF world # {} THEN handle_write_virtual(agent_id, p, The(world), draws)
       ELSE LET permissions == get_or_create(permissions_, agent_id)
                perms == permissions[agent_id]
                path == ValueOr(p.path, "")
                content == ValueOr(p.content, "")
                mode == ValueOr(p.mode, "write")
            IN /\ permissions_' = permissions
               /\ UNCHANGED worlds_
               /\ IF ~p.valid
                  THEN /\ resp' = FsError("WRITE", agent_id, "invalid request")
                       /\ fs_served' = ServedByNone
                       /\ UNCHANGED real_fs_
                  ELSE IF path = ""
                  THEN /\ resp' = FsError("WRITE", agent_id, "path required")
                       /\ fs_served' = ServedByNone
                       /\ UNCHANGED real_fs_
                  ELSE IF ~can_write_path(perms, path)
                  THEN /\ resp' = FsError("WRITE", agent_id,
                                          "Permission denied: path not allowed for writing")
                       /\ fs_served' = ServedByNone
                       /\ UNCHANGED real_fs_
                  ELSE /\ fs_served' = ServedByReal
                       /\ real_fs_' =
                              MapPut(real_fs_, path,
                                     IF mode = "append" /\ path \in DOMAIN real_fs_
                                     THEN real_fs_[path] \o content ELSE content)
                       /\ resp' = [op |-> "WRITE", agent_id |-> agent_id,
                                   success |-> TRUE, content |-> content]

\* What READ and WRITE leave alone.
notFsVars ==
    <<store_, now, subscriptions_, queues_, ipcVars, purged, asyncVars, supVars,
      agent_to_world_, next_world_num_, snapshot, lockVars, tunnelVars>>

ReadRequest(agent_id, p, draws) ==
    /\ handle_read(agent_id, p, draws)
    /\ req' = [op |-> "READ", agent_id |-> agent_id, arg |-> p]
    /\ UNCHANGED notFsVars

WriteRequest(agent_id, p, draws) ==
    /\ handle_write(agent_id, p, draws)
    /\ req' = [op |-> "WRITE", agent_id |-> agent_id, arg |-> p]
    /\ UNCHANGED notFsVars

\* VirtualFilesystem::remove on the filesystem of a world, called by the host.
VfsRemove(world_id, path) ==
    /\ world_id \in DOMAIN worlds_
    /\ worlds_' = [worlds_ EXCEPT
                      ![world_id].vfs = VirtualFilesystem_remove(@, path).vfs]
    /\ req' = Request("VFS_REMOVE", 0, <<world_id, path>>)
    /\ resp' = [op |-> "VFS_REMOVE", agent_id |-> 0,
                success |-> VirtualFilesystem_remove(worlds_[world_id].vfs, path).ok]
    /\ UNCHANGED <<fsVars, lockVars, tunnelVars, notFsVars>>

(***************************************************************************)
(* GET_PERMS and SET_PERMS.                                                *)
(***************************************************************************)
SetPermsPayload(agent_id, permissions, level) ==
    [valid |-> TRUE, agent_id |-> agent_id, permissions |-> permissions, level |-> level]

\* The level names handle_set_perms knows; any other name is STANDARD.
parse_level(level_str) ==
    CASE level_str = "unrestricted" -> "UNRESTRICTED"
      [] level_str = "sandboxed" -> "SANDBOXED"
      [] level_str = "readonly" -> "READONLY"
      [] level_str = "minimal" -> "MINIMAL"
      [] OTHER -> "STANDARD"

PermissionDenied(agent_id) ==
    [op |-> "SET_PERMS", agent_id |-> agent_id, success |-> FALSE,
     error |-> "Permission denied: cannot modify other agent's permissions"]

\* Fault: the caller's can_spawn is not asked for.
handle_set_perms_unchecked(agent_id, p) ==
    IF ~p.valid
    THEN /\ resp' = InvalidRequest(agent_id, "SET_PERMS")
         /\ UNCHANGED permissions_
    ELSE LET target_id == ValueOr(p.agent_id, agent_id)
             permissions == get_or_create(permissions_, agent_id)
         IN /\ permissions_' =
                   IF p.permissions # {}
                   THEN set_permissions(permissions, target_id,
                                        AgentPermissions_from_json(The(p.permissions)))
                   ELSE IF p.level # {}
                   THEN set_level(permissions, target_id, parse_level(The(p.level)))
                   ELSE permissions
            /\ resp' = [op |-> "SET_PERMS", agent_id |-> agent_id, success |-> TRUE,
                        target_id |-> target_id]

\* PermissionSyscalls::handle_set_perms
handle_set_perms(agent_id, p) ==
    IF ~p.valid
    THEN /\ resp' = InvalidRequest(agent_id, "SET_PERMS")
         /\ UNCHANGED permissions_
    ELSE LET target_id == ValueOr(p.agent_id, agent_id)
             permissions == get_or_create(permissions_, agent_id)
             caller_perms == permissions[agent_id]
         IN IF target_id # agent_id /\ ~caller_perms.can_spawn
            THEN /\ resp' = PermissionDenied(agent_id)
                 /\ permissions_' = permissions
            ELSE /\ permissions_' =
                        IF p.permissions # {}
                        THEN set_permissions(permissions, target_id,
                                             AgentPermissions_from_json(The(p.permissions)))
                        ELSE IF p.level # {}
                        THEN set_level(permissions, target_id, parse_level(The(p.level)))
                        ELSE permissions
                 /\ resp' = [op |-> "SET_PERMS", agent_id |-> agent_id, success |-> TRUE,
                             target_id |-> target_id]

\* PermissionSyscalls::handle_get_perms
handle_get_perms(agent_id) ==
    LET permissions == get_or_create(permissions_, agent_id)
    IN /\ permissions_' = permissions
       /\ resp' = [op |-> "GET_PERMS", agent_id |-> agent_id, success |-> TRUE,
                   permissions |-> permissions[agent_id]]

\* What GET_PERMS and SET_PERMS leave alone.
notPermVars ==
    <<store_, now, subscriptions_, queues_, ipcVars, purged, asyncVars, supVars,
      worldVars, real_fs_, fs_served, lockVars,
      tunnelVars>>

SetPermsRequest(agent_id, p) ==
    /\ handle_set_perms(agent_id, p)
    /\ req' = [op |-> "SET_PERMS", agent_id |-> agent_id, arg |-> p]
    /\ UNCHANGED notPermVars

GetPermsRequest(agent_id) ==
    /\ handle_get_perms(agent_id)
    /\ req' = Request("GET_PERMS", agent_id, "")
    /\ UNCHANGED notPermVars

(***************************************************************************)
(* The tunnel bridge: one thread that calls send_request_and_wait, the     *)
(* reader thread that hands the replies of the subprocess to               *)
(* handle_response, and shutdown, which may run on another thread.  A      *)
(* reply is the JSON object {id, result}; the empty JSON value marks a     *)
(* slot that waits for its reply.                                          *)
(***************************************************************************)
NoFd == -1
PipeFd == 3
MaxTunnelRequests == 2   \* requests the caller makes
NoCall == [pc |-> "idle", req_id |-> 0, expired |-> FALSE]
TunnelReply(id) == [id |-> id, result |-> "ok"]
TunnelReturn(req_id, response, path) == [req_id |-> req_id, response |-> response, path |-> path]

notTunnelVars ==
    <<kernelVars, req, resp, asyncVars, supVars, worldVars, fsVars, lockVars>>

\* TunnelClient::init: the pipes are open and the reader thread runs.
TunnelClient_init ==
    /\ tunnel_shutdown = "new"
    /\ ~running_
    /\ stdin_fd_' = PipeFd
    /\ running_' = TRUE
    /\ tunnel_shutdown' = "up"
    /\ UNCHANGED <<tunnel_next_request_id_, pending_responses_, tunnel_call, tunnel_wire,
                   tunnel_returns>>
    /\ UNCHANGED notTunnelVars

\* A caller such as configure or send_response numbers its request and
\* enters send_request_and_wait, which files the empty slot of the id.
send_request_and_wait_prepare ==
    /\ tunnel_call.pc = "idle"
    /\ tunnel_next_request_id_ <= MaxTunnelRequests
    /\ LET req_id == tunnel_next_request_id_
       IN /\ tunnel_next_request_id_' = req_id + 1
          /\ pending_responses_' = MapPut(pending_responses_, req_id, {})
          /\ tunnel_call' = [pc |-> "send", req_id |-> req_id, expired |-> FALSE]
    /\ UNCHANGED <<running_, stdin_fd_, tunnel_wire, tunnel_shutdown, tunnel_returns>>
    /\ UNCHANGED notTunnelVars

\* TunnelClient::send_request; written says whether write took the whole line.
send_request(fd, written) == fd >= 0 /\ written

\* Fault of the send path: the slot stays when the request cannot be sent.
send_request_and_wait_send_keeps(written) ==
    /\ tunnel_call.pc = "send"
    /\ IF ~send_request(stdin_fd_, written)
       THEN /\ UNCHANGED pending_responses_
            /\ tunnel_returns' =
                   Append(tunnel_returns, TunnelReturn(tunnel_call.req_id, {}, "unsent"))
            /\ tunnel_call' = NoCall
            /\ UNCHANGED tunnel_wire
       ELSE /\ tunnel_wire' = tunnel_wire \cup {tunnel_call.req_id}
            /\ tunnel_call' = [tunnel_call EXCEPT !.pc = "test"]
            /\ UNCHANGED <<pending_responses_, tunnel_returns>>
    /\ UNCHANGED <<running_, stdin_fd_, tunnel_next_request_id_, tunnel_shutdown>>
    /\ UNCHANGED notTunnelVars

\* send_request_and_wait: the request is sent; when it cannot be, the slot
\* is erased and the call returns nothing.
send_request_and_wait_send(written) ==
    /\ tunnel_call.pc = "send"
    /\ IF ~send_request(stdin_fd_, written)
       THEN /\ pending_responses_' = MapErase(pending_responses_, tunnel_call.req_id)
            /\ tunnel_returns' =
                   Append(tunnel_returns, TunnelReturn(tunnel_call.req_id, {}, "unsent"))
            /\ tunnel_call' = NoCall
            /\ UNCHANGED tunnel_wire
       ELSE /\ tunnel_wire' = tunnel_wire \cup {tunnel_call.req_id}
            /\ tunnel_call' = [tunnel_call EXCEPT !.pc = "test"]
            /\ UNCHANGED <<pending_responses_, tunnel_returns>>
    /\ UNCHANGED <<running_, stdin_fd_, tunnel_next_request_id_, tunnel_shutdown>>
    /\ UNCHANGED notTunnelVars

\* send_request_and_wait: the test of the loop, while (running_).  When the
\* client no longer runs the call returns nothing past the loop.
send_request_and_wait_test ==
    /\ tunnel_call.pc = "test"
    /\ IF running_
       THEN /\ tunnel_call' = [tunnel_call EXCEPT !.pc = "wait"]
            /\ UNCHANGED tunnel_returns
       ELSE /\ tunnel_returns' =
                   Append(tunnel_returns, TunnelReturn(tunnel_call.req_id, {}, "stopped"))
            /\ tunnel_call' = NoCall
    /\ UNCHANGED <<running_, stdin_fd_, tunnel_next_request_id_, pending_responses_,
                   tunnel_wire, tunnel_shutdown>>
    /\ UNCHANGED notTunnelVars

\* The deadline of the call passes.
DeadlinePasses ==
    /\ tunnel_call.pc \in {"test", "wait"}
    /\ ~tunnel_call.expired
    /\ tunnel_call' = [tunnel_call EXCEPT !.expired = TRUE]
    /\ UNCHANGED <<running_, stdin_fd_, tunnel_next_request_id_, pending_responses_,
                   tunnel_wire, tunnel_shutdown, tunnel_returns>>
    /\ UNCHANGED notTunnelVars

\* The slot the predicate of wait_until reads: operator[] files an empty
\* slot when the map has none.
SlotOf(pending, req_id) == IF req_id \in DOMAIN pending THEN pending[req_id] ELSE {}

\* Fault of the wait: the timeout leaves the slot in the map.
send_request_and_wait_wait_keeps ==
    /\ tunnel_call.pc = "wait"
    /\ LET req_id == tunnel_call.req_id
           response == SlotOf(pending_responses_, req_id)
       IN /\ response # {} \/ tunnel_call.expired
          /\ pending_responses_' =
                 IF response # {} THEN MapErase(pending_responses_, req_id)
                 ELSE MapPut(pending_responses_, req_id, {})
          /\ tunnel_returns' =
                 Append(tunnel_returns,
                        TunnelReturn(req_id, response,
                                     IF response # {} THEN "reply" ELSE "timeout"))
    /\ tunnel_call' = NoCall
    /\ UNCHANGED <<running_, stdin_fd_, tunnel_next_request_id_, tunnel_wire,
                   tunnel_shutdown>>
    /\ UNCHANGED notTunnelVars

\* send_request_and_wait: wait_until comes back, with the reply when the
\* slot holds one, and otherwise at the deadline; either way the slot is
\* erased.
send_request_and_wait_wait ==
    /\ tunnel_call.pc = "wait"
    /\ LET req_id == tunnel_call.req_id
           response == SlotOf(pending_responses_, req_id)
       IN /\ response # {} \/ tunnel_call.expired
          /\ pending_responses_' = MapErase(pending_responses_, req_id)
          /\ tunnel_returns' =
                 Append(tunnel_returns,
                        TunnelReturn(req_id, response,
                                     IF response # {} THEN "reply" ELSE "timeout"))
    /\ tunnel_call' = NoCall
    /\ UNCHANGED <<running_, stdin_fd_, tunnel_next_request_id_, tunnel_wire,
                   tunnel_shutdown>>
    /\ UNCHANGED notTunnelVars

\* Fault: the reply is filed whether or not a slot waits for it.
handle_response_files(pending, response) == MapPut(pending, response.id, {response})

\* TunnelClient::handle_response
handle_response(pending, response) ==
    IF response.id \in DOMAIN pending THEN MapPut(pending, response.id, {response})
    ELSE pending

\* The subprocess answers a request and the reader thread, which has not
\* been joined, hands the reply to handle_response.
reader_loop(id) ==
    /\ id \in tunnel_wire
    /\ tunnel_shutdown \in {"up", "stopping"}
    /\ tunnel_wire' = tunnel_wire \ {id}
    /\ pending_responses_' = handle_response(pending_responses_, TunnelReply(id))
    /\ UNCHANGED <<running_, stdin_fd_, tunnel_next_request_id_, tunnel_call,
                   tunnel_shutdown, tunnel_returns>>
    /\ UNCHANGED notTunnelVars

\* TunnelClient::shutdown: running_ is cleared first.
shutdown_stop ==
    /\ tunnel_shutdown = "up"
    /\ running_
    /\ running_' = FALSE
    /\ tunnel_shutdown' = "stopping"
    /\ UNCHANGED <<stdin_fd_, tunnel_next_request_id_, pending_responses_, tunnel_call,
                   tunnel_wire, tunnel_returns>>
    /\ UNCHANGED notTunnelVars

\* TunnelClient::shutdown: the reader thread is joined and the pipes closed.
shutdown_close ==
    /\ tunnel_shutdown = "stopping"
    /\ stdin_fd_' = NoFd
    /\ tunnel_shutdown' = "down"
    /\ UNCHANGED <<running_, tunnel_next_request_id_, pending_responses_, tunnel_call,
                   tunnel_wire, tunnel_returns>>
    /\ UNCHANGED notTunnelVars

\* The steady clock advances between two requests.
Tick ==
    /\ now < ClockStart + MaxTicks * TickSecs
    /\ now' = now + TickSecs
    /\ UNCHANGED <<store_, subscriptions_, queues_, req, resp, purged>>
    /\ UNCHANGED ipcVars
    /\ UNCHANGED restVars

Init ==
    /\ store_ = EmptyMap
    /\ now = ClockStart
    /\ subscriptions_ = EmptyMap
    /\ queues_ = EmptyMap
    /\ req = NoRequest
    /\ agent_names_ = EmptyMap
    /\ agent_ids_to_names_ = EmptyMap
    /\ agent_mailboxes_ = EmptyMap
    /\ sent_log = EmptyMap
    /\ recv_log = EmptyMap
    /\ resp = NoResponse
    /\ purged = {}
    /\ next_request_id_ = FirstRequestId
    /\ queue_ = <<>>
    /\ queue_mutex_ = NoThread
    /\ stopping_ = FALSE
    /\ results_ = EmptyMap
    /\ workers_ = [w \in Workers |-> [pc |-> "top", task |-> NoTask]]
    /\ callers = [t \in Threads |-> [pc |-> "idle", id |-> 0, seen |-> {}]]
    /\ issued = {}
    /\ returned = {}
    /\ task_owner = EmptyMap
    /\ dtor = "alive"
    /\ agents_by_name_ = EmptyMap
    /\ agents_by_id_ = EmptyMap
    /\ saved_configs_ = EmptyMap
    /\ restart_states_ = EmptyMap
    /\ pending_restarts_ = <<>>
    /\ restart_events = <<>>
    /\ launch_failed = {}
    /\ window_failures = EmptyMap
    /\ killed = {}
    /\ lock_threads = [t \in Threads |-> [todo |-> <<>>, held |-> <<>>]]
    /\ running_ = FALSE
    /\ stdin_fd_ = NoFd
    /\ tunnel_next_request_id_ = FirstRequestId
    /\ pending_responses_ = EmptyMap
    /\ tunnel_call = NoCall
    /\ tunnel_wire = {}
    /\ tunnel_shutdown = "new"
    /\ tunnel_returns = <<>>
    /\ worlds_ = EmptyMap
    /\ agent_to_world_ = EmptyMap
    /\ next_world_num_ = FirstWorldNum
    /\ snapshot = NoSnapshot
    /\ permissions_ = EmptyMap
    /\ real_fs_ = EmptyMap
    /\ fs_served = ServedByNone

(***************************************************************************)
(* SpecState: the state store under STORE, FETCH, DELETE and KEYS requests *)
(* of two agents, with the clock advancing in between.  The agents use one *)
(* user key, "foo", in every scope, and the literal physical key           *)
(* "agent:1:foo" in the shared namespace; each agent writes its own value, *)
(* so that a fetched value identifies its writer; a TTL, when given, is    *)
(* one second.                                                             *)
(***************************************************************************)
ValueOf(agent_id) == IF agent_id = 1 THEN "v1" ELSE "v2"

StateTargets ==
    {<<"foo", {"global"}>>, <<"foo", {"agent"}>>, <<"foo", {"session"}>>,
     <<"agent:1:foo", {"global"}>>}
StateTtls == {{}, {1}}
StateKeys == {{}, {"foo"}, {"agent:1:foo"}}
StatePrefixes == {{}, {"fo"}, {"agent:"}}

StoreAny ==
    \E a \in AgentIds, x \in StateTargets, t \in StateTtls :
        StoreRequest(a, StorePayload({x[1]}, {ValueOf(a)}, x[2], t))

StoreNoKey ==
    \E a \in AgentIds, k \in {{}, {""}} :
        StoreRequest(a, StorePayload(k, {ValueOf(a)}, {}, {}))

StoreBad == \E a \in AgentIds : StoreRequest(a, BadPayload)

FetchAny == \E a \in AgentIds, k \in StateKeys : FetchRequest(a, KeyPayload(k))

FetchBad == \E a \in AgentIds : FetchRequest(a, BadPayload)

DeleteAny == \E a \in AgentIds, k \in StateKeys : DeleteRequest(a, KeyPayload(k))

DeleteBad == \E a \in AgentIds : DeleteRequest(a, BadPayload)

KeysAny ==
    \E a \in AgentIds, x \in StatePrefixes : KeysRequest(a, PrefixPayload(x))

KeysBad == \E a \in AgentIds : KeysRequest(a, BadPayload)

NextState ==
    \/ StoreAny
    \/ StoreNoKey
    \/ StoreBad
    \/ FetchAny
    \/ FetchBad
    \/ DeleteAny
    \/ DeleteBad
    \/ KeysAny
    \/ KeysBad
    \/ Tick

SpecState == Init /\ [][NextState]_vars

(***************************************************************************)
(* SpecTtl: the state store when every TTL a STORE carries is zero or      *)
(* negative.                                                               *)
(***************************************************************************)
TtlScopes == {{"global"}, {"agent"}, {"session"}}
NonPositiveTtls == {{}, {-1}, {0}}

StoreTtl ==
    \E a \in AgentIds, sc \in TtlScopes, t \in NonPositiveTtls :
        StoreRequest(a, StorePayload({"foo"}, {ValueOf(a)}, sc, t))

FetchTtl == \E a \in AgentIds : FetchRequest(a, KeyPayload({"foo"}))

KeysTtl == \E a \in AgentIds : KeysRequest(a, PrefixPayload({}))

NextTtl ==
    \/ StoreTtl
    \/ FetchTtl
    \/ KeysTtl
    \/ Tick

SpecTtl == Init /\ [][NextTtl]_vars

(***************************************************************************)
(* SpecEvents: STORE requests of agent 1, in every spelling of the scope,  *)
(* while both agents subscribe to, unsubscribe from and poll the event     *)
(* bus.                                                                    *)
(***************************************************************************)
Writers == {1}
ScopeSpellings == {{}, {"global"}, {"agent"}, {"session"}, {""}, {"bogus"}}
EventLists == {<<"STATE_CHANGED">>, <<"bogus">>}

StoreEv ==
    \E a \in Writers, k \in {{}, {"foo"}}, sc \in ScopeSpellings :
        StoreRequest(a, StorePayload(k, {ValueOf(a)}, sc, {}))

StoreEvBad == \E a \in Writers : StoreRequest(a, BadPayload)

SubscribeEv ==
    \E a \in AgentIds, l \in EventLists :
        \/ SubscribeRequest(a, EventsPayload({l}, {}, {}, {}))
        \/ SubscribeRequest(a, EventsPayload({}, {l}, {}, {}))
        \/ SubscribeRequest(a, EventsPayload({}, {}, {l[1]}, {}))

SubscribeEvNone ==
    \E a \in AgentIds :
        \/ SubscribeRequest(a, EventsPayload({}, {}, {}, {}))
        \/ SubscribeRequest(a, BadPayload)

UnsubscribeEv ==
    \E a \in AgentIds :
        \/ \E l \in EventLists : UnsubscribeRequest(a, EventsPayload({l}, {}, {}, {}))
        \/ UnsubscribeRequest(a, EventsPayload({}, {}, {}, {TRUE}))
        \/ UnsubscribeRequest(a, BadPayload)

PollEv ==
    \E a \in AgentIds :
        \/ \E m \in {{}, {1}, {0}} : PollEventsRequest(a, MaxPayload(m))
        \/ PollEventsRequest(a, BadPayload)

NextEvents ==
    \/ StoreEv
    \/ StoreEvBad
    \/ SubscribeEv
    \/ SubscribeEvNone
    \/ UnsubscribeEv
    \/ PollEv

SpecEvents == Init /\ [][NextEvents]_vars

(***************************************************************************)
(* SpecBus: the event bus under SUBSCRIBE, UNSUBSCRIBE, EMIT and           *)
(* POLL_EVENTS requests of two agents and events emitted by the kernel.    *)
(* Agent 2 subscribes to CUSTOM and AGENT_EXITED, one name or the same     *)
(* name twice, in one request or several; agent 1 subscribes to CUSTOM     *)
(* only and is the one that sends EMIT requests; the kernel emits          *)
(* AGENT_EXITED.  Emitted data is "d1" or "d2", so that two queued events  *)
(* can be told apart.                                                      *)
(***************************************************************************)
BusSubscriptions ==
    {<<1, <<"CUSTOM">>>>, <<2, <<"CUSTOM">>>>, <<2, <<"AGENT_EXITED">>>>,
     <<2, <<"CUSTOM", "CUSTOM">>>>}
BusBodies == {"d1"}
BusEmitted ==
    {<<{"CUSTOM"}, {JsonData("object", "d1", "")}>>,
     <<{"ping"}, {JsonData("object", "d2", "")}>>,
     <<{"ping"}, {JsonData("number", "7", "")}>>}
BusMax == {{}, {0}, {1}}

SubscribeBus ==
    \E x \in BusSubscriptions :
        SubscribeRequest(x[1], EventsPayload({x[2]}, {}, {}, {}))

UnsubscribeBus ==
    \E a \in AgentIds :
        \/ UnsubscribeRequest(a, EventsPayload({}, {}, {"CUSTOM"}, {}))
        \/ UnsubscribeRequest(a, EventsPayload({}, {}, {}, {TRUE}))

EmitBus ==
    \E a \in Writers :
        \/ \E x \in BusEmitted : EmitRequest(a, EmitPayload(x[1], x[2]))
        \/ EmitRequest(a, BadPayload)

KernelEmitBus ==
    \E b \in BusBodies : KernelEmit("AGENT_EXITED", JsonData("object", b, ""), 0)

PollBus ==
    \E a \in AgentIds, m \in BusMax : PollEventsRequest(a, MaxPayload(m))

NextBus ==
    \/ SubscribeBus
    \/ UnsubscribeBus
    \/ EmitBus
    \/ KernelEmitBus
    \/ PollBus

SpecBus == Init /\ [][NextBus]_vars

(***************************************************************************)
(* SpecAsync: the async task manager with two workers, two threads that    *)
(* take request ids and submit tasks for either agent, and ASYNC_POLL      *)
(* requests of both agents.  SpecShutdown: the workers, one thread that    *)
(* submits tasks for agent 1, and the destructor; no thread stops while it *)
(* can run: every step of a worker and of the destructor is eventually     *)
(* taken if it stays possible (a spurious wake-up is possible but never    *)
(* owed, and the destructor need not be called at all).                    *)
(***************************************************************************)
AsyncMax == {{}, {0}, {1}}

NextRequestIdAsync ==
    \E t \in Threads :
        \/ CallNextRequestId(t)
        \/ next_request_id(t)
        \/ ReturnRequestId(t)

SubmitAsync == \E t \in Threads, a \in AgentIds : submit(t, a, "EXEC")

PollAsync ==
    \E a \in AgentIds :
        \/ \E m \in AsyncMax : AsyncPollRequest(a, MaxPayload(m))
        \/ AsyncPollRequest(a, BadPayload)

WorkerStep(w) ==
    \/ WorkerLock(w)
    \/ WorkerTest(w)
    \/ WorkerWait(w)
    \/ WorkerTake(w)
    \/ WorkerFinish(w)

WorkerAsync == \E w \in Workers : WorkerStep(w)

SpuriousAsync == \E w \in Workers : SpuriousWakeup(w)

DtorAsync ==
    \/ DtorStop
    \/ DtorNotify
    \/ DtorJoin

NextAsync ==
    \/ NextRequestIdAsync
    \/ SubmitAsync
    \/ PollAsync
    \/ WorkerAsync
    \/ SpuriousAsync

SpecAsync == Init /\ [][NextAsync]_vars

RequestIdShutdown ==
    \E t \in Writers :
        \/ CallNextRequestId(t)
        \/ next_request_id(t)
        \/ ReturnRequestId(t)

SubmitShutdown == \E t \in Writers : submit(t, 1, "EXEC")

NextShutdown ==
    \/ RequestIdShutdown
    \/ SubmitShutdown
    \/ WorkerAsync
    \/ SpuriousAsync
    \/ DtorAsync

SpecShutdown ==
    /\ Init
    /\ [][NextShutdown]_vars
    /\ \A w \in Workers : WF_vars(WorkerStep(w))
    /\ WF_vars(DtorNotify)
    /\ WF_vars(DtorJoin)

(***************************************************************************)
(* SpecIpc: REGISTER, SEND and RECV requests of two agents.  Agents        *)
(* register as "alice" or "bob"; a SEND names its target by id (2, or 3,   *)
(* the id of no agent), by name ("bob", or "carol", that nobody registers  *)
(* as) or not at all; the body of a message is its number in the run.      *)
(***************************************************************************)
IpcNames == {{}, {"alice"}, {"bob"}}
IpcTargets ==
    {<<{}, {}>>, <<{2}, {}>>, <<{3}, {}>>, <<{}, {"bob"}>>,
     <<{0}, {"carol"}>>, <<{2}, {"alice"}>>}
IpcMax == {{}, {1}, {2}}

Body == ToString(TotalSent + 1)

RegisterIpc ==
    \E a \in AgentIds :
        \/ \E n \in IpcNames : RegisterRequest(a, NamePayload(n))
        \/ RegisterRequest(a, BadPayload)

SendIpc ==
    \E a \in AgentIds :
        \/ \E x \in IpcTargets : SendRequest(a, SendPayload(x[1], x[2], {Body}))
        \/ SendRequest(a, BadPayload)

RecvIpc ==
    \E a \in AgentIds :
        \/ \E m \in IpcMax : RecvRequest(a, MaxPayload(m))
        \/ RecvRequest(a, BadPayload)

NextIpc ==
    \/ RegisterIpc
    \/ SendIpc
    \/ RecvIpc

SpecIpc == Init /\ [][NextIpc]_vars

(***************************************************************************)
(* Vocabulary of the state-store claims, stated without the store's own    *)
(* helpers: the physical key of an agent's private entry, and what it      *)
(* means for an entry to be live at a time.                                *)
(***************************************************************************)
UserKeys == {"foo", "agent:1:foo"}

PrivateKey(agent_id, key) ==
    IF agent_id = 1 THEN "agent:1:" \o key ELSE "agent:2:" \o key

Live(entry, t) == entry.expires_at = NoExpiry \/ t <= entry.expires_at

Has(s, k) == k \in DOMAIN s

IsPrivateEntry(s, agent_id, key) ==
    /\ Has(s, PrivateKey(agent_id, key))
    /\ s[PrivateKey(agent_id, key)].scope = "agent"
    /\ s[PrivateKey(agent_id, key)].owner_agent_id = agent_id

\* C1 - scope isolation.  While agent a holds an agent-scoped entry for k and
\* nothing else is stored under k, a FETCH of k by another agent b, and a FETCH
\* by b of the literal physical key "agent:<a>:k", answer exists=false; a FETCH
\* of k by a answers exists=true with a's value and scope "agent" (while the
\* entry's TTL, if any, has not elapsed).
C1_OnlyEntry(a, b, k) ==
    /\ IsPrivateEntry(store_, a, k)
    /\ ~Has(store_, k)
    /\ ~Has(store_, PrivateKey(b, k))
    /\ ~Has(store_, PrivateKey(b, PrivateKey(a, k)))

C1_AgentScopeIsolation ==
    [][\A a \in AgentIds, b \in AgentIds, k \in UserKeys :
          (a # b /\ C1_OnlyEntry(a, b, k)) =>
              /\ FetchRequest(b, KeyPayload({k})) =>
                     resp'.success /\ ~resp'.exists
              /\ FetchRequest(b, KeyPayload({PrivateKey(a, k)})) =>
                     resp'.success /\ ~resp'.exists
              /\ (FetchRequest(a, KeyPayload({k}))
                    /\ Live(store_[PrivateKey(a, k)], now)) =>
                     /\ resp'.exists
                     /\ resp'.value = store_[PrivateKey(a, k)].value
                     /\ resp'.scope = "agent"]_vars

C1_Witness ==
    /\ req = Request("FETCH", 2, "agent:1:foo")
    /\ resp.op = "FETCH" /\ resp.success /\ ~resp.exists
    /\ DOMAIN store_ = {"agent:1:foo"}
    /\ IsPrivateEntry(store_, 1, "foo")
    /\ Live(store_["agent:1:foo"], now)

\* C2 - a global entry is readable by everyone.  While the shared key k holds
\* a live entry of scope global, a FETCH of k by any agent b answers
\* exists=true with that entry's value, also when b holds a private entry
\* named k.
C2_GlobalReadableByAll ==
    [][\A b \in AgentIds, k \in UserKeys :
          (/\ Has(store_, k)
           /\ store_[k].scope = "global"
           /\ Live(store_[k], now)
           /\ FetchRequest(b, KeyPayload({k}))) =>
              /\ resp'.success /\ resp'.exists
              /\ resp'.value = store_[k].value
              /\ resp'.scope = "global"
              /\ store_' = store_]_vars

C2_Witness ==
    /\ req = Request("FETCH", 2, "foo")
    /\ resp.op = "FETCH" /\ resp.exists /\ resp.value = "v1" /\ resp.scope = "global"
    /\ Has(store_, "foo")
    /\ store_["foo"].scope = "global" /\ store_["foo"].owner_agent_id = 1
    /\ store_["foo"].expires_at # NoExpiry
    /\ IsPrivateEntry(store_, 2, "foo") /\ Live(store_["agent:2:foo"], now)

\* What the access rule of the specification lets an agent read.
Readable(agent_id, entry) ==
    \/ entry.scope \in {"global", "session"}
    \/ entry.scope = "agent" /\ entry.owner_agent_id = agent_id

ListedEntries(keys) == {r.entry : r \in keys}

C3_FallbackLive(b, k) ==
    /\ Has(store_, PrivateKey(b, k))
    /\ Live(store_[PrivateKey(b, k)], now)
    /\ Readable(b, store_[PrivateKey(b, k)])

C5_Candidates(b, k) == {k, PrivateKey(b, k)} \cap DOMAIN store_

C5_Foreign(b, e) == e.scope # "global" /\ e.owner_agent_id # b

C5_EraseOwnerOrGlobal ==
    [][\A b \in AgentIds, k \in UserKeys :
          (req'.op = "DELETE" /\ DeleteRequest(b, KeyPayload({k}))) =>
              LET removed == DOMAIN store_ \ DOMAIN store_'
              IN /\ removed \subseteq C5_Candidates(b, k)
                 /\ Cardinality(removed) <= 1
                 /\ \A e \in removed :
                        store_[e].owner_agent_id = b \/ store_[e].scope = "global"
                 /\ DOMAIN store_' \subseteq DOMAIN store_
                 /\ \A e \in DOMAIN store_' : store_'[e] = store_[e]
                 /\ resp'.success
                 /\ resp'.deleted <=> removed # {}
                 /\ (\A e \in C5_Candidates(b, k) : C5_Foreign(b, store_[e])) =>
                        ~resp'.deleted /\ store_' = store_]_vars

C5_Witness ==
    /\ req = Request("DELETE", 2, "foo")
    /\ resp.op = "DELETE" /\ resp.success /\ ~resp.deleted
    /\ Has(store_, "foo")
    /\ store_["foo"].scope = "session" /\ store_["foo"].owner_agent_id = 1
    /\ ~Has(store_, "agent:2:foo")

\* C6 as stated - KEYS lists exactly the live entries the caller may access
\* whose user-visible name starts with the prefix, each under that name: the
\* key as the owner wrote it, without "agent:<owner>:" for a private entry.
UserVisibleName(k, entry) ==
    IF entry.scope = "agent"
    THEN SubSeq(k, Len(PrivateKey(entry.owner_agent_id, "")) + 1, Len(k))
    ELSE k

C6_Expected(s, t, b, prefix) ==
    {[entry |-> k, name |-> UserVisibleName(k, s[k])] :
        k \in {e \in DOMAIN s :
                  /\ Live(s[e], t)
                  /\ Readable(b, s[e])
                  /\ StartsWith(UserVisibleName(e, s[e]), prefix)}}

C6_KeysFilterOnVisibleName ==
    [][\A b \in AgentIds :
          KeysRequest(b, PrefixPayload({"fo"})) =>
              resp'.keys = C6_Expected(store_, now, b, "fo")]_vars

\* C4 as stated - a STORE whose TTL is zero or negative creates a permanent
\* entry: where no STORE carries a positive TTL, a FETCH of a key under which
\* the caller has an entry it may read answers exists=true, at any later time.
C4_HasReadable(b, k) ==
    \E e \in {k, PrivateKey(b, k)} : Has(store_, e) /\ Readable(b, store_[e])

C4_NonPositiveTtlIsPermanent ==
    [][\A b \in AgentIds :
          (C4_HasReadable(b, "foo") /\ FetchRequest(b, KeyPayload({"foo"}))) =>
              resp'.success /\ resp'.exists]_vars

\* C7 - a STORE request appends one STATE_CHANGED event, carrying the key and
\* the writer, to the queue of every agent subscribed to STATE_CHANGED when it
\* succeeds and the scope it names is global (absent, empty, "global" or no
\* scope name at all); a STORE with scope agent or session, and a STORE that
\* fails, leave every queue as it was.
C7_NamesGlobal(p) ==
    p.valid /\ (p.scope = {} \/ The(p.scope) \notin {"agent", "session"})

C7_Event(a, p) ==
    [type |-> "STATE_CHANGED",
     data |-> [key |-> The(p.key), action |-> "store", agent_id |-> a],
     timestamp |-> now,
     source_agent_id |-> a]

C7_Listens(b) ==
    b \in DOMAIN subscriptions_ /\ "STATE_CHANGED" \in subscriptions_[b]

C7_Payloads(a) ==
    {BadPayload} \cup
    {StorePayload(k, {ValueOf(a)}, sc, {}) :
        k \in {{}, {"foo"}}, sc \in ScopeSpellings}

C7_StateChangedOnlyForGlobal ==
    [][\A a \in Writers : \A p \in C7_Payloads(a) :
          StoreRequest(a, p) =>
              \A b \in AgentIds :
                  QueueOf(queues_', b) =
                      IF resp'.success /\ C7_NamesGlobal(p) /\ C7_Listens(b)
                      THEN Append(QueueOf(queues_, b), C7_Event(a, p))
                      ELSE QueueOf(queues_, b)]_vars

C7_Witness ==
    /\ req = Request("STORE", 1, "foo")
    /\ resp.op = "STORE" /\ resp.success
    /\ Has(store_, "foo") /\ store_["foo"].scope = "global"
    /\ C7_Listens(1) /\ C7_Listens(2)
    /\ Len(QueueOf(queues_, 1)) = 1 /\ Len(QueueOf(queues_, 2)) = 1
    /\ queues_[2][1].type = "STATE_CHANGED" /\ queues_[2][1].source_agent_id = 1

(***************************************************************************)
(* Vocabulary of the IPC claims: who holds a name, and the letters still   *)
(* waiting in a mailbox.                                                   *)
(***************************************************************************)
C8_Names == {"alice", "bob"}

C8_Holders(n) ==
    {a \in DOMAIN agent_ids_to_names_ : agent_ids_to_names_[a] = n}

C8_BoundTo(n) == IF n \in DOMAIN agent_names_ THEN {agent_names_[n]} ELSE {}

\* C8 - each name is bound to at most one agent id, in the name table and in
\* the table of the agents' names alike, and the two tables agree; a REGISTER
\* of a name bound to another agent answers success=false and leaves both
\* tables as they were.
C8_NameBoundToAtMostOneAgent ==
    /\ [](\A n \in C8_Names :
             /\ Cardinality(C8_Holders(n)) <= 1
             /\ C8_Holders(n) = C8_BoundTo(n))
    /\ [][\A a \in AgentIds, n \in C8_Names :
             (/\ C8_BoundTo(n) # {}
              /\ C8_BoundTo(n) # {a}
              /\ RegisterRequest(a, NamePayload({n}))) =>
                 /\ ~resp'.success
                 /\ agent_names_' = agent_names_
                 /\ agent_ids_to_names_' = agent_ids_to_names_]_vars

C8_Witness ==
    /\ req = Request("REGISTER", 2, "bob")
    /\ resp.op = "REGISTER" /\ ~resp.success
    /\ resp.error = "name already registered"
    /\ C8_BoundTo("bob") = {1}
    /\ C8_BoundTo("alice") = {2}

\* The letters waiting in a mailbox, as their recipient will see them.
C9_Waiting(r) ==
    LET box == MailboxOf(agent_mailboxes_, r)
    IN [i \in DOMAIN box |-> Letter(box[i].from_id, box[i].message)]

C9_Recipients == AgentIds \cup {3}

\* C9 - for every recipient, the letters its RECV requests have returned so
\* far, followed by the letters still waiting, are the letters sent to it in
\* the order they were sent: every sender's letters come out in the order
\* sent, none is returned twice and none is lost.  One RECV returns at most
\* max letters (10 when the request names no max), the oldest ones.
C9_RecvInOrderExactlyOnce ==
    /\ [](\A r \in C9_Recipients :
             MailboxOf(recv_log, r) \o C9_Waiting(r) = MailboxOf(sent_log, r))
    /\ [][\A a \in AgentIds, m \in IpcMax :
             (req'.op = "RECV" /\ RecvRequest(a, MaxPayload(m))) =>
                 /\ resp'.success
                 /\ resp'.count = Len(resp'.messages)
                 /\ resp'.count <= ValueOr(m, 10)
                 /\ Letters(resp'.messages) = SubSeq(C9_Waiting(a), 1, resp'.count)]_vars

C9_Witness ==
    /\ req.op = "RECV" /\ req.agent_id = 2
    /\ resp.op = "RECV" /\ resp.count = 1
    /\ MailboxOf(recv_log, 2) = <<Letter(1, "1")>>
    /\ C9_Waiting(2) = <<Letter(1, "2")>>
    /\ MailboxOf(sent_log, 2) = <<Letter(1, "1"), Letter(1, "2")>>

\* C10 as stated - a SEND whose target does not exist answers success=false
\* and leaves every mailbox as it was, whether the target is a name nobody
\* has registered or a numeric id that is the id of no agent.
C10_TargetMissing(x) ==
    IF ValueOr(x[1], 0) # 0
    THEN The(x[1]) \notin AgentIds
    ELSE ValueOr(x[2], "") # "" /\ C8_BoundTo(ValueOr(x[2], "")) = {}

C10_SendToMissingTargetFails ==
    [][\A a \in AgentIds, x \in IpcTargets :
          (C10_TargetMissing(x) /\ SendRequest(a, SendPayload(x[1], x[2], {Body}))) =>
              ~resp'.success /\ agent_mailboxes_' = agent_mailboxes_]_vars

(***************************************************************************)
(* Vocabulary of the event-bus claims.                                     *)
(***************************************************************************)
C11_Listens(s, type) == s \in DOMAIN subscriptions_ /\ type \in subscriptions_[s]

C11_Event(type, data, src) ==
    [type |-> type, data |-> data, timestamp |-> now, source_agent_id |-> src]

C11_Delivered(type, data, src) ==
    \A s \in AgentIds :
        QueueOf(queues_', s) =
            IF C11_Listens(s, type)
            THEN Append(QueueOf(queues_, s), C11_Event(type, data, src))
            ELSE QueueOf(queues_, s)

\* The data an EMIT request hands to the bus: the request's data, with the
\* event name written into it when the name is not "CUSTOM".
C11_EmitData(x) ==
    IF The(x[1]) = "CUSTOM" THEN The(x[2])
    ELSE JsonData("object", The(x[2]).body, The(x[1]))

\* C11 - every emit(T, d, src), by the kernel or by an EMIT request that
\* succeeds, appends exactly one event with type T, data d and source src to
\* the queue of each agent subscribed to T at that time and leaves every other
\* queue as it was; an EMIT request that fails appends nothing; subscribing
\* again to a type already subscribed to changes no subscription, so one emit
\* still yields one entry.
C11_EmitOnePerSubscriber ==
    [][/\ \A b \in BusBodies :
             KernelEmit("AGENT_EXITED", JsonData("object", b, ""), 0) =>
                 C11_Delivered("AGENT_EXITED", JsonData("object", b, ""), 0)
       /\ \A a \in Writers, x \in BusEmitted :
             EmitRequest(a, EmitPayload(x[1], x[2])) =>
                 IF resp'.success
                 THEN C11_Delivered("CUSTOM", C11_EmitData(x), a)
                 ELSE queues_' = queues_
       /\ \A x \in BusSubscriptions :
             (/\ \A i \in DOMAIN x[2] : C11_Listens(x[1], x[2][i])
              /\ SubscribeRequest(x[1], EventsPayload({x[2]}, {}, {}, {}))) =>
                 subscriptions_' = subscriptions_]_vars

C11_Witness ==
    /\ req = Request("EMIT", 1, "ping") /\ resp.op = "EMIT" /\ resp.success
    /\ C11_Listens(2, "CUSTOM") /\ ~C11_Listens(2, "AGENT_EXITED")
    /\ ~C11_Listens(1, "CUSTOM")
    /\ QueueOf(queues_, 1) = <<>>
    /\ QueueOf(queues_, 2) =
           <<C11_Event("CUSTOM", JsonData("object", "d2", "ping"), 1)>>

\* C12 - POLL_EVENTS with max m (100 when the request names none) removes
\* the first n events of the caller's queue, n <= m, and returns exactly
\* those, oldest first, each with its timestamp in milliseconds; the events
\* it does not return stay queued in the same order and no other queue
\* changes, so an event that was returned is never returned again and one
\* that was not is still to come.
C12_Json(event) ==
    [type |-> event.type, data |-> event.data,
     source_agent_id |-> event.source_agent_id,
     timestamp |-> 1000 * event.timestamp]

C12_PollDrainsFifo ==
    [][\A a \in AgentIds, m \in BusMax :
          (req'.op = "POLL_EVENTS" /\ PollEventsRequest(a, MaxPayload(m))) =>
              LET queue == QueueOf(queues_, a)
                  n == resp'.count
              IN /\ resp'.success
                 /\ n = Len(resp'.events)
                 /\ n <= Len(queue)
                 /\ n <= ValueOr(m, 100)
                 /\ (ValueOr(m, 100) >= Len(queue)) => n = Len(queue)
                 /\ \A i \in 1..n : resp'.events[i] = C12_Json(queue[i])
                 /\ QueueOf(queues_', a) = SubSeq(queue, n + 1, Len(queue))
                 /\ \A b \in AgentIds \ {a} :
                        QueueOf(queues_', b) = QueueOf(queues_, b)]_vars

C12_Witness ==
    /\ req.op = "POLL_EVENTS" /\ req.agent_id = 2
    /\ resp.op = "POLL_EVENTS" /\ resp.count = 1
    /\ resp.events[1].data = JsonData("object", "d1", "")
    /\ resp.events[1].timestamp = 1000 * now
    /\ Len(QueueOf(queues_, 2)) = 1
    /\ queues_[2][1].data = JsonData("object", "d2", "ping")

(***************************************************************************)
(* The claims about the async task manager.                                *)
(***************************************************************************)
\* C13 - the id a call of next_request_id obtains has been handed out to no
\* other call, and is greater than every id whose call had returned before
\* this call started.  (The counter is a 64-bit unsigned integer starting at
\* 1; the model stops far below its wrap-around.)
C13_RequestIdsStrictlyMonotone ==
    [][\A t \in Threads :
          next_request_id(t) =>
              /\ callers'[t].id \notin issued
              /\ \A i \in callers[t].seen : callers'[t].id > i]_vars

C13_Witness ==
    /\ callers[1].pc = "holds" /\ callers[1].id = 2 /\ callers[1].seen = {}
    /\ callers[2].pc = "fetched" /\ callers[2].id = 1

C14_Owner(result) == task_owner[result.request_id]

C14_OthersUntouched(a) ==
    \A b \in AgentIds \ {a} : ResultsOf(results_', b) = ResultsOf(results_, b)

\* C14 - every result waits in the queue of the agent its task was submitted
\* for; a worker that finishes a task appends its result to that queue and
\* touches no other; ASYNC_POLL with max m (10 when none is given) removes the
\* first n <= m results of the caller's queue and returns exactly those, in
\* the order they were appended, leaving the rest and every other queue as
\* they were; with m <= 0 it returns and removes nothing.
C14_ResultsPerAgentFifo ==
    /\ [](\A a \in DOMAIN results_ : \A i \in DOMAIN results_[a] :
             C14_Owner(results_[a][i]) = a)
    /\ [][/\ \A w \in Workers :
                WorkerFinish(w) =>
                    LET a == task_owner[workers_[w].task.request_id]
                    IN /\ ResultsOf(results_', a) =
                              Append(ResultsOf(results_, a),
                                     [request_id |-> workers_[w].task.request_id,
                                      opcode |-> "EXEC", payload |-> "done"])
                       /\ C14_OthersUntouched(a)
          /\ \A a \in AgentIds, m \in AsyncMax :
                (req'.op = "ASYNC_POLL" /\ AsyncPollRequest(a, MaxPayload(m))) =>
                    LET queue == ResultsOf(results_, a)
                        n == resp'.count
                    IN /\ resp'.success
                       /\ n <= ValueOr(m, 10) \/ n = 0
                       /\ ValueOr(m, 10) <= 0 => (n = 0 /\ results_' = results_)
                       /\ n <= Len(queue)
                       /\ resp'.results = SubSeq(queue, 1, n)
                       /\ ResultsOf(results_', a) = SubSeq(queue, n + 1, Len(queue))
                       /\ C14_OthersUntouched(a)
                       /\ \A i \in 1..n : C14_Owner(resp'.results[i]) = a]_vars

C14_Witness ==
    /\ req = Request("ASYNC_POLL", 2, "")
    /\ resp.op = "ASYNC_POLL" /\ resp.count = 1
    /\ resp.results[1].request_id = 2
    /\ ResultsOf(results_, 2) = <<[request_id |-> 1, opcode |-> "EXEC", payload |-> "done"]>>
    /\ task_owner = (1 :> 2) @@ (2 :> 2)

\* C15 as stated - once the destructor has set the stop flag, every worker
\* eventually returns from worker_loop and the join completes, as long as no
\* thread that can run stops and every task that runs finishes.
C15_ShutdownCompletes == stopping_ ~> (dtor = "joined")

(***************************************************************************)
(* SpecSupervisor: one agent name under the supervisor.  The agent is      *)
(* spawned with one of four restart configurations, dies with exit code 0  *)
(* or 1, is reaped, and its scheduled restarts are launched, successfully  *)
(* or not, while the clock advances.                                       *)
(***************************************************************************)
SupNames == {"w"}
ExitCodes == {0, 1}
SupConfigs ==
    {RestartConfig("ALWAYS", 1, 4, 100, 1000, <<2, 1>>),
     RestartConfig("ALWAYS", 5, 300, 100, 1000, <<2, 1>>),
     RestartConfig("ALWAYS", 2, 300, 2000, 1000, <<3, 2>>),
     RestartConfig("ON_FAILURE", 1, 300, 100, 1000, <<2, 1>>),
     RestartConfig("NEVER", 1, 300, 100, 1000, <<2, 1>>)}

\* A name is spawned again with the configuration it was spawned with before,
\* and only when the supervisor has no restart pending for it.
SpawnSup == \E name \in SupNames, config \in SupConfigs, started \in BOOLEAN :
                /\ name \in DOMAIN saved_configs_ => config = saved_configs_[name]
                /\ \A i \in DOMAIN pending_restarts_ : pending_restarts_[i].agent_name # name
                /\ spawn_agent(name, config, started)
DiesSup == \E name \in SupNames, exit_code \in ExitCodes : AgentDies(name, exit_code)
LaunchSup == \E started \in SUBSET SupNames : process_pending_restarts(started)

NextSupervisor ==
    \/ SpawnSup
    \/ DiesSup
    \/ reap_and_restart_agents
    \/ LaunchSup
    \/ SupTick

SpecSupervisor == Init /\ [][NextSupervisor]_vars

\* The restart events of one type that the supervisor has emitted for name.
EventsOf(events, event_type, name) ==
    Cardinality({i \in DOMAIN events :
                    events[i].event_type = event_type /\ events[i].agent_name = name})

\* The pending restarts scheduled for name.
PendingOf(pending, name) ==
    Cardinality({i \in DOMAIN pending : pending[i].agent_name = name})

\* The supervisor reaps a failure of name, whose policy is ALWAYS.
ReapsAlways(name) ==
    /\ Fails(name)
    /\ saved_configs_[name].policy = "ALWAYS"
    /\ reap_and_restart_agents

\* C16: with policy ALWAYS and max_restarts = k, each of the first k failures
\* of an agent in one restart window schedules exactly one pending restart and
\* emits AGENT_RESTARTING, the (k+1)th failure in the window emits
\* AGENT_ESCALATED exactly once and schedules nothing, and a later failure in
\* the same window schedules nothing either.
C16_EscalatesAfterCap ==
    [][\A name \in SupNames :
          ReapsAlways(name) =>
              LET k == saved_configs_[name].max_restarts
                  n == window_failures'[name]
                  scheduled == PendingOf(pending_restarts_', name)
                                   - PendingOf(pending_restarts_, name)
                  restarting == EventsOf(restart_events', "AGENT_RESTARTING", name)
                                    - EventsOf(restart_events, "AGENT_RESTARTING", name)
                  escalated == EventsOf(restart_events', "AGENT_ESCALATED", name)
                                   - EventsOf(restart_events, "AGENT_ESCALATED", name)
              IN /\ n <= k => scheduled = 1 /\ restarting = 1 /\ escalated = 0
                 /\ n = k + 1 => scheduled = 0 /\ restarting = 0 /\ escalated = 1
                 /\ n > k + 1 => scheduled = 0 /\ restarting = 0]_vars

\* The same, for the agents that have never escalated before.
C16_FirstEscalation ==
    [][\A name \in SupNames :
          (ReapsAlways(name) /\ ~StateOf(restart_states_, name).escalated) =>
              LET k == saved_configs_[name].max_restarts
                  n == window_failures'[name]
                  scheduled == PendingOf(pending_restarts_', name)
                                   - PendingOf(pending_restarts_, name)
                  restarting == EventsOf(restart_events', "AGENT_RESTARTING", name)
                                    - EventsOf(restart_events, "AGENT_RESTARTING", name)
                  escalated == EventsOf(restart_events', "AGENT_ESCALATED", name)
                                   - EventsOf(restart_events, "AGENT_ESCALATED", name)
              IN /\ n <= k => scheduled = 1 /\ restarting = 1 /\ escalated = 0
                 /\ n = k + 1 => scheduled = 0 /\ restarting = 0 /\ escalated = 1
                 /\ n > k + 1 => scheduled = 0 /\ restarting = 0]_vars

RECURSIVE Pow(_, _)
Pow(b, n) == IF n = 0 THEN 1 ELSE b * Pow(b, n - 1)

\* min(backoff_initial_ms * multiplier^(n-1), backoff_max_ms), in whole
\* milliseconds.
BackoffFormula(config, n) ==
    Min(config.backoff_initial_ms * Pow(config.backoff_multiplier[1], n - 1),
        config.backoff_max_ms * Pow(config.backoff_multiplier[2], n - 1))
        \div Pow(config.backoff_multiplier[2], n - 1)

\* C17: the nth restart of a window is scheduled
\* min(backoff_initial_ms * multiplier^(n-1), backoff_max_ms) milliseconds
\* after the failure is reaped, for every restart configuration and n >= 1.
C17_BackoffIsCappedExponential ==
    [][\A name \in SupNames :
          (/\ Fails(name)
           /\ reap_and_restart_agents
           /\ Len(pending_restarts_') = Len(pending_restarts_) + 1) =>
              LET p == pending_restarts_'[Len(pending_restarts_')]
                  n == restart_states_'[name].restart_count
              IN p.scheduled_time - now * 1000 = BackoffFormula(saved_configs_[name], n)]_vars

\* The same, for the configurations whose initial delay is within the cap.
C17_WithinCap ==
    [][\A name \in SupNames :
          (/\ Fails(name)
           /\ reap_and_restart_agents
           /\ saved_configs_[name].backoff_initial_ms <= saved_configs_[name].backoff_max_ms
           /\ Len(pending_restarts_') = Len(pending_restarts_) + 1) =>
              LET p == pending_restarts_'[Len(pending_restarts_')]
                  n == restart_states_'[name].restart_count
              IN p.scheduled_time - now * 1000 = BackoffFormula(saved_configs_[name], n)]_vars

\* C18: an agent whose scheduled restart failed to launch is not dropped: it
\* is still known to the manager, or a restart is pending for it, or its
\* escalation has been emitted.
C18_FailedLaunchIsRetried ==
    \A name \in launch_failed :
        \/ name \in DOMAIN agents_by_name_
        \/ PendingOf(pending_restarts_, name) > 0
        \/ EventsOf(restart_events, "AGENT_ESCALATED", name) > 0

(***************************************************************************)
(* SpecWorlds: two agents and the worlds they create, join, leave,         *)
(* destroy, snapshot and restore.  A restore takes the snapshot the client *)
(* was given last, under a generated id or under the id "copy".            *)
(***************************************************************************)
WorldNames == {"Lab 1"}
RestoreIds == {"", "copy"}
DestroyPayloads ==
    {DestroyPayload({w}, f) : w \in DOMAIN worlds_ \cup {"gone"}, f \in {{}, {TRUE}}}
        \cup {DestroyPayload({}, {TRUE}), BadPayload}

CreateWorlds == \E name \in WorldNames : WorldCreateRequest(name, NoConfig)
DestroyWorlds == \E a \in Writers, p \in DestroyPayloads : WorldDestroyRequest(a, p)
JoinWorlds == \E a \in AgentIds, w \in DOMAIN worlds_ : WorldJoinRequest(a, w)
LeaveWorlds == \E a \in AgentIds : WorldLeaveRequest(a)
SnapshotWorlds == \E w \in DOMAIN worlds_ : WorldSnapshotRequest(w)
RestoreWorlds == \E id \in RestoreIds : WorldRestoreRequest(id)

NextWorlds ==
    \/ CreateWorlds
    \/ DestroyWorlds
    \/ JoinWorlds
    \/ LeaveWorlds
    \/ SnapshotWorlds
    \/ RestoreWorlds

SpecWorlds == Init /\ [][NextWorlds]_vars

\* The worlds whose member set holds the agent.
WorldsOf(agent_id) == {w \in DOMAIN worlds_ : agent_id \in worlds_[w].agents}

\* C19: an agent is a member of at most one world: no agent id is in the member
\* sets of two worlds, and a join by an agent that is in a world already fails
\* and changes nothing.
C19_AtMostOneWorldPerAgent ==
    /\ [](\A a \in AgentIds : Cardinality(WorldsOf(a)) <= 1)
    /\ [][\A a \in AgentIds :
             (/\ req'.op = "WORLD_JOIN"
              /\ req'.agent_id = a
              /\ is_agent_in_world(agent_to_world_, a)) =>
                 /\ ~resp'.success
                 /\ UNCHANGED <<worlds_, agent_to_world_>>]_vars

\* The half of it that is about join alone.
C19_JoinRefusesMembers ==
    [][\A a \in AgentIds :
          (/\ req'.op = "WORLD_JOIN"
           /\ req'.agent_id = a
           /\ is_agent_in_world(agent_to_world_, a)) =>
              /\ ~resp'.success
              /\ UNCHANGED <<worlds_, agent_to_world_>>]_vars

\* A destroy request for an existing world w with the given force flag.
Destroys(w, force) ==
    /\ req'.op = "WORLD_DESTROY"
    /\ req'.arg = DestroyPayload({w}, force)
    /\ w \in DOMAIN worlds_

\* C20: destroying an existing world without force is refused exactly when
\* the world has a member; with force=true it succeeds, the world is gone,
\* none of its former members is in a world any more as far as the engine
\* knows, and each of them is free to join any world that is left.
C20_DestroyRefusesOrEvicts ==
    [][\A w \in DOMAIN worlds_ :
          /\ Destroys(w, {}) =>
                /\ resp'.success <=> worlds_[w].agents = {}
                /\ resp'.success => w \notin DOMAIN worlds_'
                /\ ~resp'.success => UNCHANGED <<worlds_, agent_to_world_>>
          /\ Destroys(w, {TRUE}) =>
                /\ resp'.success
                /\ w \notin DOMAIN worlds_'
                /\ \A a \in worlds_[w].agents :
                      /\ ~is_agent_in_world(agent_to_world_', a)
                      /\ \A other \in DOMAIN worlds_' :
                            ~join_refused(agent_to_world_', worlds_', a, other)]_vars

\* A world with two members has just been destroyed by force while another
\* world is left for them to join.
C20_Witness ==
    /\ req.op = "WORLD_DESTROY"
    /\ req.arg = DestroyPayload({"lab-1-0001"}, {TRUE})
    /\ resp.success
    /\ DOMAIN worlds_ = {"copy"}
    /\ DOMAIN agent_to_world_ = {}
    /\ snapshot.agents = <<1, 2>>
(***************************************************************************)
(* SpecVfs: one agent and one world, created with one of two virtual       *)
(* filesystems, snapshots of that world, and a copy restored from one of   *)
(* them.  Both filesystems intercept every path and hold a read-only file; *)
(* the first also holds a writable file and lets new files be written      *)
(* under /tmp only, the second has no writable patterns.  The agent joins  *)
(* one of the worlds and writes three paths in it, one of them a spelling  *)
(* of the read-only file that is not normalized; the host removes files    *)
(* from the virtual filesystems.  An append is modelled onto a file that   *)
(* holds at most one character.                                            *)
(***************************************************************************)
VfsConfigs ==
    {VfsConfig(<<<<"/data/log", FileConfig("l", {})>>,
                 <<"/etc/../etc/hosts", FileConfig("h", {"r"})>>>>,
               <<>>, <<"/tmp/*">>, {}),
     VfsConfig(<<<<"etc/hosts", FileConfig("h", {"r"})>>>>, <<>>, <<>>, {})}

FsPaths == {"/etc/./hosts", "/data/log", "/tmp/a"}

WritePayloads ==
    {FsPayload({path}, {"x"}, {}) : path \in FsPaths}
        \cup {FsPayload({"/etc/./hosts"}, {"x"}, {"append"}),
              FsPayload({"/data/log"}, {"x"}, {"append"})}

AppendTo == {"", "l", "x", "h"}

\* The content the write of p by the agent would append to.
AppendTarget(agent_id, p) ==
    LET world == intercepting_world(agent_id, p)
        path == ValueOr(p.path, "")
    IN IF world # {}
       THEN ValueOr(VirtualFilesystem_read(worlds_[The(world)].vfs, path), "")
       ELSE IF path \in DOMAIN real_fs_ THEN real_fs_[path] ELSE ""

ContentFits(agent_id, p) ==
    (p.valid /\ p.mode = {"append"}) => AppendTarget(agent_id, p) \in AppendTo

CreateVfs ==
    \E name \in WorldNames, config \in VfsConfigs :
        /\ worlds_ = EmptyMap
        /\ WorldCreateRequest(name, WorldConfig({config}, {}))
JoinVfs == \E a \in Writers, w \in DOMAIN worlds_ : WorldJoinRequest(a, w)
SnapshotVfs == \E w \in DOMAIN worlds_ \ {"copy"} : WorldSnapshotRequest(w)
RestoreVfs == WorldRestoreRequest("copy")
WriteVfs ==
    \E a \in Writers, p \in WritePayloads :
        /\ intercepting_world(a, p) # {}
        /\ ContentFits(a, p)
        /\ WriteRequest(a, p, <<FALSE>>)
RemoveVfs == \E w \in DOMAIN worlds_, path \in FsPaths : VfsRemove(w, path)

NextVfs ==
    \/ CreateVfs
    \/ JoinVfs
    \/ SnapshotVfs
    \/ RestoreVfs
    \/ WriteVfs
    \/ RemoveVfs

SpecVfs == Init /\ [][NextVfs]_vars
\* The paths and the patterns two virtual filesystems are compared on.
ProbePaths == FsPaths \cup {"/etc/hosts", "etc/hosts", "/tmp/b", "/TMP/c", "/var/x", ""}
ProbePatterns == {"*", "/**", "/etc/*", "/tmp/*", "/*/*"}

\* Two virtual filesystems answer every probe alike.
SameAnswers(v1, v2) ==
    /\ \A path \in ProbePaths :
           /\ VirtualFilesystem_read(v1, path) = VirtualFilesystem_read(v2, path)
           /\ VirtualFilesystem_mode(v1, path) = VirtualFilesystem_mode(v2, path)
           /\ is_writable(v1, path) = is_writable(v2, path)
    /\ \A pattern \in ProbePatterns :
           VirtualFilesystem_list(v1, pattern) = VirtualFilesystem_list(v2, pattern)

\* The world the snapshot was taken of exists and is as it was then.
SnapshotIsCurrent ==
    /\ snapshot.id \in DOMAIN worlds_
    /\ World_to_json(snapshot.id, worlds_[snapshot.id]) = snapshot

\* C21: a world restored from the snapshot of a world has a virtual filesystem
\* that answers read, list, mode and writability for every path as the
\* filesystem of the snapshotted world does; taking the snapshot and restoring
\* it leave the snapshotted world as it was.
C21_RestoreReproducesVfs ==
    [][/\ (req'.op = "WORLD_SNAPSHOT") => worlds_' = worlds_
       /\ (/\ req'.op = "WORLD_RESTORE"
           /\ resp'.success
           /\ SnapshotIsCurrent) =>
              /\ SameAnswers(worlds_[snapshot.id].vfs, worlds_'[resp'.world_id].vfs)
              /\ worlds_'[snapshot.id] = worlds_[snapshot.id]]_vars

\* A world that holds a file the agent wrote has been restored as "copy", and
\* the copy holds the file.
C21_Witness ==
    /\ req.op = "WORLD_RESTORE"
    /\ resp.success
    /\ SnapshotIsCurrent
    /\ snapshot.id # "copy"
    /\ VirtualFilesystem_read(worlds_[snapshot.id].vfs, "/tmp/a") = {"x"}
    /\ VirtualFilesystem_read(worlds_["copy"].vfs, "/tmp/a") = {"x"}
    /\ VirtualFilesystem_mode(worlds_["copy"].vfs, "/etc/hosts") = {"r"}
\* The virtual filesystem that served the WRITE of this step, before and after it.
WrittenVfs == worlds_[The(fs_served'.vfs)].vfs
WrittenVfsAfter == worlds_'[The(fs_served'.vfs)].vfs

\* A WRITE was served by a virtual filesystem in this step.
VirtualWrite == req'.op = "WRITE" /\ fs_served'.vfs # {}

\* The file holds a read-only file at the path, and: the filesystem has
\* writable patterns and the path matches none of them.
TargetIsReadOnly(vfs, path) == VirtualFilesystem_mode(vfs, path) = {"r"}
OutsideWritable(vfs, path) ==
    /\ vfs.writable_patterns # <<>>
    /\ \A i \in DOMAIN vfs.writable_patterns :
           ~matches_pattern(normalize_path(path), vfs.writable_patterns[i])

\* What a successful write leaves at the path: a new file has mode rw, an
\* existing one keeps its mode and has its content replaced or extended.
WriteEffect(vfs, after, p) ==
    LET path == normalize_path(The(p.path))
        content == The(p.content)
    IN /\ DOMAIN after.files = DOMAIN vfs.files \cup {path}
       /\ \A q \in DOMAIN vfs.files \ {path} : after.files[q] = vfs.files[q]
       /\ after.files[path] =
              IF path \notin DOMAIN vfs.files THEN VirtualFile(content, "rw")
              ELSE VirtualFile(IF p.mode = {"append"}
                               THEN vfs.files[path].content \o content ELSE content,
                               vfs.files[path].mode)
       /\ after.writable_patterns = vfs.writable_patterns

\* C22 as stated: a write is denied exactly when the target exists with mode r
\* or the filesystem has writable patterns and the path matches none of them.
C22_DeniedOutsideWritable ==
    [][VirtualWrite =>
          (resp'.success <=>
              ~(\/ TargetIsReadOnly(WrittenVfs, The(req'.arg.path))
                \/ OutsideWritable(WrittenVfs, The(req'.arg.path))))]_vars

\* C22, amended: a write is denied, leaving the filesystem as it was, exactly
\* when the target exists with mode r, or the target does not exist and the
\* filesystem has writable patterns and the path matches none of them;
\* otherwise it creates the file with mode rw or updates it, appending when
\* append is set.
C22_DeniedOutsideWritableIfNew ==
    [][VirtualWrite =>
          LET path == The(req'.arg.path)
              denied ==
                  \/ TargetIsReadOnly(WrittenVfs, path)
                  \/ /\ VirtualFilesystem_mode(WrittenVfs, path) = {}
                     /\ OutsideWritable(WrittenVfs, path)
          IN /\ resp'.success <=> ~denied
             /\ denied => WrittenVfsAfter = WrittenVfs
             /\ ~denied => WriteEffect(WrittenVfs, WrittenVfsAfter, req'.arg)]_vars

\* A file of mode rw that no writable pattern matches has been appended to.
C22_Witness ==
    /\ req.op = "WRITE"
    /\ resp.success
    /\ req.arg.path = {"/data/log"}
    /\ fs_served.vfs # {}
    /\ OutsideWritable(worlds_[The(fs_served.vfs)].vfs, "/data/log")
    /\ VirtualFilesystem_read(worlds_[The(fs_served.vfs)].vfs, "/data/log") = {"lx"}
\* The world and the spelling a WRITE or a remove of this step is aimed at.
AimedWorld == IF req'.op = "WRITE" THEN The(fs_served'.vfs) ELSE req'.arg[1]
AimedPath == IF req'.op = "WRITE" THEN The(req'.arg.path) ELSE req'.arg[2]

\* C23: a file of mode r is immutable under write and remove: whatever the
\* spelling of the path, a write or a remove aimed at it fails, and no write
\* and no remove changes its content or its mode or takes it away.
C23_ReadOnlyIsImmutable ==
    [][(VirtualWrite \/ req'.op = "VFS_REMOVE") =>
          /\ TargetIsReadOnly(worlds_[AimedWorld].vfs, AimedPath) => ~resp'.success
          /\ \A w \in DOMAIN worlds_ :
                \A q \in DOMAIN worlds_[w].vfs.files :
                    worlds_[w].vfs.files[q].mode = "r" =>
                        /\ q \in DOMAIN worlds_'[w].vfs.files
                        /\ worlds_'[w].vfs.files[q] = worlds_[w].vfs.files[q]]_vars

\* The read-only file /etc/hosts has been aimed at by a remove under another
\* spelling, and is still there.
C23_Witness ==
    /\ req.op = "VFS_REMOVE"
    /\ req.arg[2] = "/etc/./hosts"
    /\ ~resp.success
    /\ VirtualFilesystem_mode(worlds_[req.arg[1]].vfs, "/etc/hosts") = {"r"}
    /\ VirtualFilesystem_read(worlds_[req.arg[1]].vfs, "/etc/hosts") = {"h"}
(***************************************************************************)
(* SpecFs: one agent that reads and writes three paths, in no world or in  *)
(* one of two: a world whose virtual filesystem holds /etc/hosts and       *)
(* intercepts /etc and /tmp, and the copy restored from its first          *)
(* snapshot.  It writes two of the paths, one of them intercepted.  A      *)
(* request may carry no path or a payload that is not JSON, and the chaos  *)
(* engine of the world may fail it.                                        *)
(***************************************************************************)
FsConfig ==
    VfsConfig(<<<<"/etc/hosts", FileConfig("h", {})>>>>, <<>>, <<>>,
              {<<"/etc/*", "/tmp/*">>})

\* The chaos engine of the world fails a request, or not, as it draws.
FsChaos == ChaosConfig(TRUE, 50, <<>>)

HostPaths == {"/etc/hosts", "/tmp/a", "/data/log"}

ReadPayloads ==
    {FsPayload({path}, {}, {}) : path \in HostPaths}
        \cup {FsPayload({}, {}, {}), BadPayload}

FsPayloads ==
    {FsPayload({path}, {"x"}, {}) : path \in HostPaths \ {"/etc/hosts"}}
        \cup {FsPayload({}, {"x"}, {}), BadPayload}

CreateFs ==
    \E name \in WorldNames :
        /\ worlds_ = EmptyMap
        /\ WorldCreateRequest(name, WorldConfig({FsConfig}, {FsChaos}))
JoinFs == \E a \in Writers, w \in DOMAIN worlds_ : WorldJoinRequest(a, w)
LeaveFs == \E a \in Writers : WorldLeaveRequest(a)
SnapshotFs ==
    \E w \in DOMAIN worlds_ : snapshot = NoSnapshot /\ WorldSnapshotRequest(w)
RestoreFs == WorldRestoreRequest("copy")
ReadFs ==
    \E a \in Writers, p \in ReadPayloads, chaos \in BOOLEAN : ReadRequest(a, p, <<chaos>>)
WriteFs ==
    \E a \in Writers, p \in FsPayloads, chaos \in BOOLEAN :
        ContentFits(a, p) /\ WriteRequest(a, p, <<chaos>>)

NextFs ==
    \/ CreateFs
    \/ JoinFs
    \/ LeaveFs
    \/ SnapshotFs
    \/ RestoreFs
    \/ ReadFs
    \/ WriteFs

SpecFs == Init /\ [][NextFs]_vars
\* The path of the READ or WRITE of this step, as the handlers read it.
RequestedPath == IF req'.arg.valid THEN ValueOr(req'.arg.path, "") ELSE ""

\* The agent of this step's request is in a world whose virtual filesystem
\* intercepts the requested path.
InInterceptingWorld ==
    /\ req'.arg.valid
    /\ is_agent_in_world(agent_to_world_, req'.agent_id)
    /\ agent_to_world_[req'.agent_id] \in DOMAIN worlds_
    /\ should_intercept(worlds_[agent_to_world_[req'.agent_id]].vfs, RequestedPath)

\* C24: a READ or WRITE of an agent that is in a world whose virtual
\* filesystem intercepts the path is served by that filesystem only: the
\* host's filesystem is neither read nor written, also when the file is
\* missing or the write is denied, every other world is left as it was, and
\* a read that succeeds returns the content the world holds.  A request of
\* an agent that is in no world is never served from a virtual filesystem.
C24_InterceptedStaysVirtual ==
    [][(req'.op = "READ" \/ req'.op = "WRITE") =>
          /\ InInterceptingWorld =>
                LET world_id == agent_to_world_[req'.agent_id]
                IN /\ ~fs_served'.real
                   /\ fs_served'.vfs \subseteq {world_id}
                   /\ real_fs_' = real_fs_
                   /\ \A w \in DOMAIN worlds_ \ {world_id} : worlds_'[w] = worlds_[w]
                   /\ (req'.op = "READ" /\ resp'.success) =>
                          /\ fs_served'.vfs = {world_id}
                          /\ {resp'.content} =
                                 VirtualFilesystem_read(worlds_[world_id].vfs,
                                                        RequestedPath)
          /\ ~is_agent_in_world(agent_to_world_, req'.agent_id) =>
                /\ fs_served'.vfs = {}
                /\ worlds_' = worlds_]_vars

\* While the host holds /tmp/a, the agent, in a world beside its copy, has
\* written /tmp/a into the filesystem of its world and not into the copy's.
C24_Witness ==
    /\ req.op = "WRITE"
    /\ resp.success
    /\ req.arg.path = {"/tmp/a"}
    /\ "/tmp/a" \in DOMAIN real_fs_
    /\ is_agent_in_world(agent_to_world_, 1)
    /\ fs_served = ServedByVfs(agent_to_world_[1])
    /\ \E w \in DOMAIN worlds_ :
          /\ w # agent_to_world_[1]
          /\ VirtualFilesystem_read(worlds_[w].vfs, "/tmp/a") = NoContent
(***************************************************************************)
(* SpecPerms: two agents that read their permission records and set their  *)
(* own and each other's, by level name or by a permissions object that     *)
(* grants or withholds can_spawn.                                          *)
(***************************************************************************)
PermsObjects ==
    {[can_spawn |-> {TRUE}, can_read |-> {}, can_write |-> {FALSE}, allowed_paths |-> {}],
     [can_spawn |-> {}, can_read |-> {}, can_write |-> {}, allowed_paths |-> {{"/tmp/a"}}]}

LevelNames == {"unrestricted", "readonly", "admin"}

SetPermsPayloads ==
    {SetPermsPayload(target, permissions, level) :
        target \in {{}} \cup {{a} : a \in AgentIds},
        permissions \in {{}} \cup {{o} : o \in PermsObjects},
        level \in {{}} \cup {{l} : l \in LevelNames}}
        \cup {BadPayload}

SetPerms == \E a \in AgentIds, p \in SetPermsPayloads : SetPermsRequest(a, p)
GetPerms == \E a \in AgentIds : GetPermsRequest(a)

NextPerms ==
    \/ SetPerms
    \/ GetPerms

SpecPerms == Init /\ [][NextPerms]_vars

\* The record of the agent, or nothing.
RecordOf(permissions, agent_id) ==
    IF agent_id \in DOMAIN permissions THEN {permissions[agent_id]} ELSE {}

\* The caller's record, created with the STANDARD preset on first access,
\* has can_spawn.
CallerCanSpawn(agent_id) == get_or_create(permissions_, agent_id)[agent_id].can_spawn

\* C25: a SET_PERMS whose target differs from the caller changes the target's
\* record only if the caller's record has can_spawn when the request is
\* made; otherwise it answers success=false with a permission-denied error
\* and leaves the target's record as it was.
C25_CrossAgentNeedsCanSpawn ==
    [][(/\ req'.op = "SET_PERMS"
        /\ req'.arg.valid
        /\ req'.arg.agent_id # {}
        /\ req'.arg.agent_id # {req'.agent_id}) =>
          LET target_id == The(req'.arg.agent_id)
          IN IF CallerCanSpawn(req'.agent_id)
             THEN resp'.success
             ELSE /\ resp' = PermissionDenied(req'.agent_id)
                  /\ RecordOf(permissions_', target_id) = RecordOf(permissions_, target_id)]_vars

\* Agent 2, which lacks can_spawn, has been refused a change of the record
\* of agent 1, which has can_spawn.
C25_Witness ==
    /\ req.op = "SET_PERMS"
    /\ req.agent_id = 2
    /\ req.arg.valid
    /\ req.arg.agent_id = {1}
    /\ resp = PermissionDenied(2)
    /\ 1 \in DOMAIN permissions_
    /\ permissions_[1].can_spawn
(***************************************************************************)
(* SpecMalformed: STORE, FETCH and DELETE requests of agent 1 for the key  *)
(* "foo", REGISTER requests of both agents for the name "bob" and SEND     *)
(* requests of agent 1 to agent 2 or to "bob", each of them also with its  *)
(* required field absent or empty and with a payload that is not JSON,     *)
(* while agent 2 may subscribe to STATE_CHANGED.                           *)
(***************************************************************************)
NoKeyPayloads == {KeyPayload({}), KeyPayload({""}), BadPayload}
NoNamePayloads == {NamePayload({}), NamePayload({""}), BadPayload}
NoTargetPayloads ==
    {SendPayload({}, {}, {"m"}), SendPayload({0}, {""}, {"m"}), BadPayload}
NoKeyStores(a) ==
    {StorePayload({}, {ValueOf(a)}, {}, {}), StorePayload({""}, {ValueOf(a)}, {}, {}),
     BadPayload}

StoreMal ==
    \E a \in Writers :
        \E p \in NoKeyStores(a) \cup {StorePayload({"foo"}, {ValueOf(a)}, {}, {})} :
            StoreRequest(a, p)
FetchMal ==
    \E a \in Writers, p \in NoKeyPayloads \cup {KeyPayload({"foo"})} : FetchRequest(a, p)
DeleteMal ==
    \E a \in Writers, p \in NoKeyPayloads \cup {KeyPayload({"foo"})} : DeleteRequest(a, p)
RegisterMal ==
    \E a \in AgentIds, p \in NoNamePayloads \cup {NamePayload({"bob"})} :
        RegisterRequest(a, p)
SendMal ==
    \E a \in Writers :
        \E p \in NoTargetPayloads
                \cup {SendPayload({2}, {}, {"m"}), SendPayload({}, {"bob"}, {"m"})} :
            SendRequest(a, p)
SubscribeMal ==
    \E a \in AgentIds \ Writers :
        SubscribeRequest(a, EventsPayload({<<"STATE_CHANGED">>}, {}, {}, {}))

NextMalformed ==
    \/ StoreMal
    \/ FetchMal
    \/ DeleteMal
    \/ RegisterMal
    \/ SendMal
    \/ SubscribeMal

SpecMalformed == Init /\ [][NextMalformed]_vars

\* The request is refused with an error, and the state store, the name
\* bindings, the mailboxes, the subscriptions and the event queues are as
\* they were.
Refused ==
    /\ ~resp'.success
    /\ "error" \in DOMAIN resp'
    /\ resp'.error # ""
    /\ UNCHANGED <<store_, agent_names_, agent_ids_to_names_, agent_mailboxes_,
                   subscriptions_, queues_>>

\* C26: a STORE, FETCH, DELETE, REGISTER or SEND whose payload is not JSON
\* or lacks its required field (key, name, target) is answered with
\* success=false and an error string and leaves the state store, the name
\* bindings, the mailboxes and the event queues untouched.
C26_MalformedIsRefused ==
    [][\A a \in AgentIds :
          /\ (\E p \in NoKeyStores(a) : StoreRequest(a, p)) => Refused
          /\ (\E p \in NoKeyPayloads : FetchRequest(a, p)) => Refused
          /\ (\E p \in NoKeyPayloads : DeleteRequest(a, p)) => Refused
          /\ (\E p \in NoNamePayloads : RegisterRequest(a, p)) => Refused
          /\ (\E p \in NoTargetPayloads : SendRequest(a, p)) => Refused]_vars

\* While a key is stored, a name bound, a letter in a mailbox and an event
\* queued, a DELETE without a key has been refused.
C26_Witness ==
    /\ req.op = "DELETE"
    /\ req.arg = ""
    /\ ~resp.success
    /\ store_ # EmptyMap
    /\ agent_names_ # EmptyMap
    /\ agent_mailboxes_ # EmptyMap
    /\ \E a \in DOMAIN queues_ : queues_[a] # <<>>
\* The agent holds a live agent-scoped entry of its own under the user key foo.
HoldsPrivate(a) ==
    LET store_key == make_agent_key(a, "foo")
    IN /\ store_key \in DOMAIN store_
       /\ store_[store_key].owner_agent_id = a
       /\ store_[store_key].scope = "agent"
       /\ ~is_expired(store_[store_key], now)

\* What a fetch of foo by the agent would answer before and after this step.
ReadsBefore(a) == StateStore_fetch(store_, now, a, "foo").result
ReadsAfter(a) == StateStore_fetch(store_', now', a, "foo").result

\* C27: once an agent has stored its own agent-scoped key, no store, erase,
\* fetch or keys call of another agent changes what the agent's fetch of
\* that key returns.
C27_PrivateReadIsOwnersOnly ==
    [][\A a \in AgentIds :
          (/\ req'.agent_id # a
           /\ req'.op \in {"STORE", "DELETE", "FETCH", "KEYS"}
           /\ now' = now
           /\ HoldsPrivate(a)) => ReadsAfter(a) = ReadsBefore(a)]_vars

\* The part of C27 that the code keeps: a fetch or a keys call of another
\* agent changes nothing the agent reads, and no call of another agent
\* changes or removes the agent's own entry unless it is a store under the
\* literal physical key.
C27_OthersOnlyShadow ==
    [][\A a \in AgentIds :
          (/\ req'.agent_id # a
           /\ req'.op \in {"STORE", "DELETE", "FETCH", "KEYS"}
           /\ now' = now
           /\ HoldsPrivate(a)) =>
              /\ req'.op \in {"FETCH", "KEYS"} => ReadsAfter(a) = ReadsBefore(a)
              /\ ~(req'.op = "STORE" /\ req'.arg = make_agent_key(a, "foo")) =>
                    /\ make_agent_key(a, "foo") \in DOMAIN store_'
                    /\ store_'[make_agent_key(a, "foo")] =
                           store_[make_agent_key(a, "foo")]]_vars
(***************************************************************************)
(* SpecRespawn: the supervisor when the host spawns the name "w" at any    *)
(* time, also while a restart of it is pending, under any of three         *)
(* configurations, and kills it by name.                                   *)
(***************************************************************************)
RespawnConfigs ==
    {RestartConfig("ALWAYS", 2, 300, 100, 1000, <<2, 1>>),
     RestartConfig("ON_FAILURE", 2, 300, 100, 1000, <<2, 1>>),
     RestartConfig("NEVER", 2, 300, 100, 1000, <<2, 1>>)}

SpawnAgain ==
    \E name \in SupNames, config \in RespawnConfigs, started \in BOOLEAN :
        /\ Len(restart_events) < MaxRespawns
        /\ spawn_agent(name, config, started)
KillByName == \E name \in SupNames : kill_agent(name)

NextRespawn ==
    \/ SpawnAgain
    \/ KillByName
    \/ DiesSup
    \/ reap_and_restart_agents
    \/ LaunchSup
    \/ SupTick

SpecRespawn == Init /\ [][NextRespawn]_vars
\* The agents the id index holds under the name.
AgentsNamed(name) == {i \in DOMAIN agents_by_id_ : agents_by_id_[i] = name}

\* C28: the name index and the id index hold exactly the same agents, and
\* no name has two agents, whatever the order of spawn_agent, kill_agent,
\* reap_and_restart_agents and process_pending_restarts, also when
\* spawn_agent is called for a name that has a restart pending.
C28_IndexesAgree ==
    /\ DOMAIN agents_by_id_ = {agents_by_name_[n].id : n \in DOMAIN agents_by_name_}
    /\ \A n \in DOMAIN agents_by_name_ :
          /\ agents_by_name_[n].id \in DOMAIN agents_by_id_
          /\ agents_by_id_[agents_by_name_[n].id] = n
    /\ \A name \in SupNames : Cardinality(AgentsNamed(name)) <= 1

\* The agents the engine's map sends to the world.
MappedTo(w) == {a \in DOMAIN agent_to_world_ : agent_to_world_[a] = w}

\* C29: the agent-to-world map and the worlds' member sets say the same: the
\* map sends agent a to world w exactly when a is in w's member set, every
\* world the map names exists, and so a world's agent_count is the number
\* of agents mapped to it, after any sequence of create, join, leave,
\* destroy and restore.
C29_MapMatchesMembers ==
    /\ \A a \in DOMAIN agent_to_world_ : agent_to_world_[a] \in DOMAIN worlds_
    /\ \A w \in DOMAIN worlds_ :
          /\ worlds_[w].agents = MappedTo(w)
          /\ Cardinality(worlds_[w].agents) = Cardinality(MappedTo(w))

\* The direction of it from the map to the member sets: a mapped agent is in
\* the member set of its world, and that world exists.
C29_MappedIsMember ==
    \A a \in DOMAIN agent_to_world_ :
        /\ agent_to_world_[a] \in DOMAIN worlds_
        /\ a \in worlds_[agent_to_world_[a]].agents

\* The restart policy the dead agent was spawned with, and its exit code.
Exits(name, policy, exit_code) ==
    /\ name \in DOMAIN agents_by_name_
    /\ ~agents_by_name_[name].alive
    /\ agents_by_name_[name].policy = policy
    /\ agents_by_name_[name].exit_code = exit_code

\* The restart cap lets the failure of name reaped at time t be restarted.
CapPermits(name, t) ==
    /\ name \in DOMAIN saved_configs_
    /\ WindowReset(StateOf(restart_states_, name), saved_configs_[name], t).restart_count
           < saved_configs_[name].max_restarts

\* The reaper schedules one restart of name, or none.
SchedulesRestart(name) ==
    PendingOf(pending_restarts_', name) = PendingOf(pending_restarts_, name) + 1
SchedulesNothing(name) ==
    PendingOf(pending_restarts_', name) = PendingOf(pending_restarts_, name)

\* C30: the policy an agent was spawned with gates its restart by exit code:
\* under ON_FAILURE an exit with code 0 schedules no restart and discards the
\* saved config and the restart state, and a non-zero exit schedules a
\* restart when the cap permits; under ALWAYS every exit schedules a restart
\* when the cap permits; under NEVER no exit schedules a restart.
C30_PolicyGatesRestart ==
    [][\A name \in SupNames, exit_code \in ExitCodes :
          reap_and_restart_agents =>
              /\ Exits(name, "ON_FAILURE", exit_code) =>
                    IF exit_code = 0
                    THEN /\ SchedulesNothing(name)
                         /\ name \notin DOMAIN saved_configs_'
                         /\ name \notin DOMAIN restart_states_'
                    ELSE CapPermits(name, now) => SchedulesRestart(name)
              /\ Exits(name, "ALWAYS", exit_code) =>
                    (CapPermits(name, now) => SchedulesRestart(name))
              /\ Exits(name, "NEVER", exit_code) => SchedulesNothing(name)]_vars

\* A pending restart of name is launched and the process starts.
LaunchSucceeds(name) ==
    /\ PendingOf(pending_restarts_', name) < PendingOf(pending_restarts_, name)
    /\ name \notin DOMAIN agents_by_name_
    /\ name \in DOMAIN agents_by_name_'

\* The two counters of a restart state.
Counters(state) == <<state.restart_count, state.consecutive_failures>>

\* The counters after a failure of name is processed at time t: both start
\* from 0 when the window has elapsed, and both go up by one when the cap
\* lets the failure be restarted.
CountersAfterFailure(name, t) ==
    LET state == StateOf(restart_states_, name)
        config == saved_configs_[name]
        elapsed == t - state.window_start >= config.restart_window_sec
        base == IF elapsed THEN <<0, 0>> ELSE Counters(state)
    IN IF base[1] >= config.max_restarts THEN base
       ELSE <<base[1] + 1, base[2] + 1>>

IsDue(p, t) == t * 1000 >= p.scheduled_time
DueAt(pending, t) == {i \in DOMAIN pending : IsDue(pending[i], t)}

\* The processes that the step has started under the name.
NewlyStarted(name) ==
    {i \in DOMAIN agents_by_id_' \ DOMAIN agents_by_id_ : agents_by_id_'[i] = name}

\* The due restarts of the name.
DueOf(name) ==
    {i \in DueAt(pending_restarts_, now) : pending_restarts_[i].agent_name = name}

\* C32: a pending restart is scheduled at the time its failure is processed
\* plus the backoff delay and stays in the list, unchanged and in order,
\* until a tick at which now is at or after that time; at that tick every
\* due restart is attempted once (a process is started for it, or its start
\* fails) and removed, and the restarts not yet due stay as they are.
C32_LaunchedWhenDue ==
    [][/\ Len(pending_restarts_') >= Len(pending_restarts_) =>
             /\ SubSeq(pending_restarts_', 1, Len(pending_restarts_)) = pending_restarts_
             /\ \A i \in DOMAIN pending_restarts_' \ DOMAIN pending_restarts_ :
                   LET p == pending_restarts_'[i]
                       state == WindowReset(StateOf(restart_states_, p.agent_name),
                                            p.config, now)
                   IN p.scheduled_time =
                          now * 1000
                              + calculate_backoff_delay(p.config, state.consecutive_failures)
       /\ Len(pending_restarts_') < Len(pending_restarts_) =>
             LET NotDue(p) == ~IsDue(p, now)
             IN /\ now' = now
                /\ DueAt(pending_restarts_, now) # {}
                /\ pending_restarts_' = SelectSeq(pending_restarts_, NotDue)
                /\ \A name \in SupNames :
                      \/ Cardinality(NewlyStarted(name)) = Cardinality(DueOf(name))
                      \/ /\ NewlyStarted(name) = {}
                         /\ name \in launch_failed']_vars

\* The supervisor has just launched the restart that was due and has kept
\* the one that is not: the first restart of w was due at 5100 ms, the
\* second is scheduled at 7200 ms, and now is 7 s.
C32_Witness ==
    /\ now = 7
    /\ Len(pending_restarts_) = 1
    /\ pending_restarts_[1].scheduled_time = 7200
    /\ "w" \in DOMAIN agents_by_name_
    /\ agents_by_name_["w"].alive
    /\ Len(restart_events) = 2
    /\ launch_failed = {}

(***************************************************************************)
(* SpecChaos: one agent in a world whose virtual filesystem intercepts     *)
(* every path, created with one of four chaos configurations: disabled     *)
(* with rules and a rate that would always fire, enabled with nothing but  *)
(* events to fail by, enabled with a sure rule for writes under /etc and   *)
(* an even global rate, and enabled with an even rule for the network.     *)
(* Events are injected, the agent reads and writes two paths, and the host *)
(* asks the engine about two URLs.                                         *)
(***************************************************************************)
ChaosVfs == VfsConfig(<<<<"/etc/hosts", FileConfig("h", {})>>>>, <<>>, <<>>, {})

ChaosConfigs ==
    {ChaosConfig(FALSE, 100, <<ChaosRule("file_read_fail", "*", 100)>>),
     ChaosConfig(TRUE, 0, <<>>),
     ChaosConfig(TRUE, 50, <<ChaosRule("file_write_fail", "/etc/*", 100)>>),
     ChaosConfig(TRUE, 0, <<ChaosRule("network_fail", "http://a/**", 50)>>)}

ChaosEvents == {"disk_fail", "disk_full", "network_partition"}
ChaosPaths == {"/etc/hosts", "/tmp/a"}
ChaosUrls == {"http://a/x", "http://b/x"}
ChaosDraws == {<<FALSE, FALSE>>, <<FALSE, TRUE>>, <<TRUE, FALSE>>, <<TRUE, TRUE>>}

EventPayloads ==
    {EventPayload({w}, {event_type}) : w \in DOMAIN worlds_ \cup {"gone"},
                                       event_type \in ChaosEvents}
        \cup {EventPayload({}, {"disk_fail"}), EventPayload({"gone"}, {}), BadPayload}

CreateChaos ==
    \E name \in WorldNames, config \in ChaosConfigs :
        /\ worlds_ = EmptyMap
        /\ WorldCreateRequest(name, WorldConfig({ChaosVfs}, {config}))
JoinChaos == \E a \in Writers, w \in DOMAIN worlds_ : WorldJoinRequest(a, w)
EventChaos == \E a \in Writers, p \in EventPayloads : WorldEventRequest(a, p)
ReadChaos ==
    \E a \in Writers, path \in ChaosPaths, draws \in ChaosDraws :
        ReadRequest(a, FsPayload({path}, {}, {}), draws)
WriteChaos ==
    \E a \in Writers, path \in ChaosPaths, draws \in ChaosDraws :
        WriteRequest(a, FsPayload({path}, {"x"}, {}), draws)
NetworkChaos ==
    \E w \in DOMAIN worlds_, url \in ChaosUrls, draws \in ChaosDraws :
        NetworkQuery(w, url, draws)

NextChaos ==
    \/ CreateChaos
    \/ JoinChaos
    \/ EventChaos
    \/ ReadChaos
    \/ WriteChaos
    \/ NetworkChaos

SpecChaos == Init /\ [][NextChaos]_vars

\* The step is a query of the chaos engine of world w: a READ or WRITE that
\* the virtual filesystem of w takes, or a question about a URL.
ChaosQuery(w, op) ==
    /\ req'.op = op
    /\ w \in DOMAIN worlds_
    /\ IF op = "should_fail_network" THEN req'.arg[1] = w
       ELSE intercepting_world(req'.agent_id, req'.arg) = {w}

\* What is asked about: the path of the request, or the URL.
Asked(op) == IF op = "should_fail_network" THEN req'.arg[2] ELSE RequestedPath

\* The answer of the engine to the query of this step.
ChaosFailed(op) ==
    IF op = "should_fail_network" THEN ~resp'.success
    ELSE /\ ~resp'.success
         /\ "error" \in DOMAIN resp'
         /\ resp'.error \in {"Simulated read failure (chaos)",
                             "Simulated write failure (chaos)"}

\* The events and the rule types of an operation kind.
KindEvents(op) ==
    CASE op = "READ" -> {"disk_fail"}
      [] op = "WRITE" -> {"disk_full", "disk_fail"}
      [] OTHER -> {"network_partition"}
KindRules(op) ==
    CASE op = "READ" -> {"file_read_fail"}
      [] op = "WRITE" -> {"file_write_fail"}
      [] OTHER -> {"network_timeout", "network_fail"}

\* The probabilities the engine would consult for the query: those of the
\* matching rules of the kind, and the global rate.
Consulted(engine, op, str) ==
    {engine.rules[i].probability :
         i \in {k \in DOMAIN engine.rules :
                   /\ engine.rules[k].type \in KindRules(op)
                   /\ ChaosEngine_matches_pattern(str, engine.rules[k].pattern)}}
        \cup {engine.failure_rate}

\* C33: a query of an enabled chaos engine fails whenever an active event
\* is of the operation's kind, whatever the rules and the rate; without such
\* an event it fails if a matching rule or the rate is sure to fire and
\* cannot fail if none of them can fire; a READ or WRITE that chaos fails
\* changes no world, so the virtual filesystem is as it was; and a query of
\* a disabled engine never fails, whatever events have been injected.
C33_EventsFailFirst ==
    [][\A w \in DOMAIN worlds_, op \in {"READ", "WRITE", "should_fail_network"} :
          ChaosQuery(w, op) =>
              LET engine == worlds_[w].chaos
                  consulted == Consulted(engine, op, Asked(op))
              IN /\ ~engine.enabled => ~ChaosFailed(op)
                 /\ (engine.enabled /\ engine.active_events \cap KindEvents(op) # {}) =>
                        ChaosFailed(op)
                 /\ (engine.enabled /\ engine.active_events \cap KindEvents(op) = {}) =>
                        /\ (\E q \in consulted : q >= 100) => ChaosFailed(op)
                        /\ (\A q \in consulted : q <= 0) => ~ChaosFailed(op)
                 /\ ChaosFailed(op) => worlds_' = worlds_]_vars

\* A WRITE to a path that no rule matches has just failed because disk_full
\* is active in a world whose engine has an even failure rate and a rule,
\* and the file it would have created is not there.
C33_Witness ==
    /\ req.op = "WRITE"
    /\ req.arg.path = {"/tmp/a"}
    /\ "error" \in DOMAIN resp
    /\ resp.error = "Simulated write failure (chaos)"
    /\ \E w \in DOMAIN worlds_ :
          /\ worlds_[w].chaos.enabled
          /\ worlds_[w].chaos.failure_rate = 50
          /\ worlds_[w].chaos.active_events = {"disk_full"}
          /\ VirtualFilesystem_read(worlds_[w].vfs, "/tmp/a") = NoContent

\* The results filed for the agent that carry the request id.
ResultsFor(agent_id, request_id) ==
    {i \in DOMAIN ResultsOf(results_, agent_id) :
        ResultsOf(results_, agent_id)[i].request_id = request_id}

\* How often the task of the request id is queued, run or answered.
Occurrences(request_id) ==
    Cardinality({i \in DOMAIN queue_ : queue_[i].request_id = request_id})
        + Cardinality({w \in Workers : workers_[w].pc = "run"
                                          /\ workers_[w].task.request_id = request_id})
        + Cardinality({<<a, i>> \in AgentIds \X (1..MaxRequestIds) :
                           i \in ResultsFor(a, request_id)})

\* A task that submit has accepted.
Accepted(request_id) == request_id \in DOMAIN task_owner

\* The result of an accepted task is in the result queue of its agent.
Filed(request_id) ==
    /\ Accepted(request_id)
    /\ ResultsFor(task_owner[request_id], request_id) # {}

\* C34: every task that submit accepted is executed and its result is filed
\* in the result queue of the agent that submitted it, also when the submit
\* races with the destructor.
C34_AcceptedIsExecuted ==
    \A request_id \in 1..MaxRequestIds :
        Accepted(request_id) ~> Filed(request_id)

\* The part of it that is about "at most once": while nothing is polled, an
\* accepted task is in exactly one place, the queue, a worker or the result
\* queue of its agent, and a task that was not accepted is nowhere.
C34_NeverTwice ==
    \A request_id \in 1..MaxRequestIds :
        Occurrences(request_id) = IF Accepted(request_id) THEN 1 ELSE 0

\* The part about a submit after the stop flag is set: it returns false and
\* queues nothing.
C34_StoppedSubmitIsRefused ==
    [][\A t \in Threads :
          (stopping_ /\ submit_test(t)) =>
              /\ callers'[t].pc = "idle"
              /\ UNCHANGED <<queue_, task_owner, results_>>]_vars

(***************************************************************************)
(* SpecCollide: worlds are created under the name "Lab 1" while snapshots  *)
(* are restored under ids the client supplies, among them an id of the     *)
(* form generate_world_id gives to the next world of that name.            *)
(***************************************************************************)
CollideIds == {"lab-1-0002", "copy"}

CreateCollide ==
    \E name \in WorldNames : WorldCreateUpTo(name, NoConfig, MaxWorlds + 1)
JoinCollide == \E a \in AgentIds, w \in DOMAIN worlds_ : WorldJoinRequest(a, w)
LeaveCollide == \E a \in AgentIds : WorldLeaveRequest(a)
SnapshotCollide == \E w \in DOMAIN worlds_ : WorldSnapshotRequest(w)
RestoreCollide == \E id \in CollideIds : WorldRestoreRequest(id)

NextCollide ==
    \/ CreateCollide
    \/ JoinCollide
    \/ LeaveCollide
    \/ SnapshotCollide
    \/ RestoreCollide

SpecCollide == Init /\ [][NextCollide]_vars

\* The step leaves every world that exists as it is.
WorldsKept == \A w \in DOMAIN worlds_ : w \in DOMAIN worlds_' /\ worlds_'[w] = worlds_[w]

\* C35: create_world and restore_world never replace a world: the id that
\* create_world returns is the id of no world that exists when it is called,
\* whatever ids restore_world was given before, and every world that exists
\* is left as it is; a restore_world under the id of an existing world fails
\* and changes no world.
C35_NeverReplacesAWorld ==
    [][/\ req'.op = "WORLD_CREATE" =>
             /\ resp'.world_id \notin DOMAIN worlds_
             /\ WorldsKept
       /\ req'.op = "WORLD_RESTORE" =>
             /\ WorldsKept
             /\ req'.arg \in DOMAIN worlds_ =>
                   /\ ~resp'.success
                   /\ worlds_' = worlds_]_vars

\* The part of it that is about restore_world.
C35_RestoreNeverReplaces ==
    [][req'.op = "WORLD_RESTORE" =>
          /\ WorldsKept
          /\ req'.arg \in DOMAIN worlds_ =>
                /\ ~resp'.success
                /\ worlds_' = worlds_]_vars

\* The supervisor has an agent under the name.
Runs(name) == name \in DOMAIN agents_by_name_

\* C36: once kill_agent has returned true for a name the supervisor has no
\* agent under that name until spawn_agent is called for it again: the
\* killed agent is not reaped, no restart of the name is scheduled and no
\* pending restart of the name is launched.
C36_KilledStaysDown ==
    /\ [](\A name \in killed : ~Runs(name))
    /\ [][\A name \in killed \cap killed' :
             /\ PendingOf(pending_restarts_', name) <= PendingOf(pending_restarts_, name)
             /\ EventsOf(restart_events', "AGENT_RESTARTING", name)
                    = EventsOf(restart_events, "AGENT_RESTARTING", name)]_vars

\* What kill_agent itself does: the agent leaves both indexes, so that the
\* reaper does not see it, and the pending restarts stay as they are.
C36_KillRemovesTheAgent ==
    [][\A name \in killed' \ killed :
          /\ ~Runs(name)'
          /\ agents_by_name_[name].id \notin DOMAIN agents_by_id_'
          /\ pending_restarts_' = pending_restarts_
          /\ restart_events' = restart_events]_vars

(***************************************************************************)
(* SpecOwnPerms: agent 2, whose record starts as the STANDARD preset and   *)
(* so lacks can_spawn, is the only agent that sends SET_PERMS; agent 1     *)
(* only reads its record.                                                  *)
(***************************************************************************)
SetOwnPerms == \E p \in SetPermsPayloads : SetPermsRequest(2, p)

NextOwnPerms ==
    \/ SetOwnPerms
    \/ GetPerms

SpecOwnPerms == Init /\ [][NextOwnPerms]_vars

\* Nobody has changed the record: it is absent or the preset it is created
\* with.
Untouched(agent_id) == RecordOf(permissions_, agent_id) \subseteq {from_level("STANDARD")}

\* C37: an agent that does not hold can_spawn cannot, by any sequence of
\* its own SET_PERMS requests, acquire can_spawn or change the permission
\* record of another agent.
C37_NoSelfEscalation ==
    /\ \A r \in RecordOf(permissions_, 2) : ~r.can_spawn
    /\ Untouched(1)

\* A single SET_PERMS of a caller whose record lacks can_spawn changes the
\* record of no other agent.
C37_OneRequestStaysHome ==
    [][(req'.op = "SET_PERMS" /\ ~CallerCanSpawn(req'.agent_id)) =>
          \A b \in AgentIds \ {req'.agent_id} :
             RecordOf(permissions_', b) = RecordOf(permissions_, b)]_vars

(***************************************************************************)
(* The mutexes.  A call is modelled here by the lock and unlock steps it   *)
(* takes, in the order of its code: a std::lock_guard is the lock at its   *)
(* declaration and the unlock at the end of its scope.  A mutex is named   *)
(* by the class that owns it and, for the classes of a world, the world.   *)
(***************************************************************************)
Mutex(class, world_id) == <<class, world_id>>
Lock(m) == [step |-> "lock", mutex |-> m]
Unlock(m) == [step |-> "unlock", mutex |-> m]

\* The scope of a lock_guard on m around the steps of body.
lock_guard(m, body) == <<Lock(m)>> \o body \o <<Unlock(m)>>

StateStoreMutex == Mutex("StateStore", "")
EventBusMutex == Mutex("EventBus", "")
PermissionsStoreMutex == Mutex("PermissionsStore", "")
QueueMutex == Mutex("AsyncTaskManager::queue_mutex_", "")
ResultsMutex == Mutex("AsyncTaskManager::results_mutex_", "")
WorldEngineMutex == Mutex("WorldEngine", "")
KernelStoreMutexes ==
    {StateStoreMutex, EventBusMutex, PermissionsStoreMutex, QueueMutex, ResultsMutex}

\* StateStore::store
StateStore_store_locks == lock_guard(StateStoreMutex, <<>>)

\* EventBus::emit
EventBus_emit_locks == lock_guard(EventBusMutex, <<>>)

\* Fault: the event is emitted inside the scope of the state-store lock.
handle_store_locks_nested(scope) ==
    IF scope = "global" THEN lock_guard(StateStoreMutex, EventBus_emit_locks)
    ELSE StateStore_store_locks

\* StateSyscalls::handle_store: the store, then the event of a global key.
handle_store_locks(scope) ==
    StateStore_store_locks \o (IF scope = "global" THEN EventBus_emit_locks ELSE <<>>)

\* PermissionsStore::get_or_create
get_or_create_locks == lock_guard(PermissionsStoreMutex, <<>>)

\* AsyncTaskManager::submit, when the manager is not stopping.
submit_locks == lock_guard(QueueMutex, <<>>)

\* AsyncTaskManager::worker_loop: one task taken, run and filed.
worker_loop_locks == lock_guard(QueueMutex, <<>>) \o lock_guard(ResultsMutex, <<>>)

\* VirtualFilesystem, NetworkMock and ChaosEngine: every public method
\* holds the mutex of its object for its whole body.
Subsystem_locks(class, world_id) == lock_guard(Mutex(class, world_id), <<>>)

\* World::agent_count, World::get_agents, World::add_agent
World_agents_locks(world_id) == lock_guard(Mutex("World", world_id), <<>>)

\* World::get_metrics
World_get_metrics_locks(world_id) ==
    lock_guard(Mutex("World", world_id),
               Subsystem_locks("VirtualFilesystem", world_id)
                   \o Subsystem_locks("NetworkMock", world_id)
                   \o Subsystem_locks("ChaosEngine", world_id))

\* The body of the loop of list_worlds for one world.
list_worlds_entry_locks(world_id) ==
    World_agents_locks(world_id)
        \o World_get_metrics_locks(world_id)
        \o Subsystem_locks("VirtualFilesystem", world_id)
        \o Subsystem_locks("NetworkMock", world_id)
        \o Subsystem_locks("ChaosEngine", world_id)

\* The loop over worlds_, in the order the map hands the worlds out.
RECURSIVE list_worlds_loop_locks(_)
list_worlds_loop_locks(ids) ==
    IF ids = {} THEN <<>>
    ELSE LET id == CHOOSE id \in ids : TRUE
         IN list_worlds_entry_locks(id) \o list_worlds_loop_locks(ids \ {id})

\* WorldEngine::list_worlds over the worlds the engine has.
list_worlds_locks(ids) ==
    lock_guard(WorldEngineMutex, list_worlds_loop_locks(ids))

\* WorldEngine::destroy_world; occupied says whether the world has agents.
destroy_world_locks(ids, world_id, force, occupied) ==
    lock_guard(WorldEngineMutex,
               IF world_id \notin ids THEN <<>>
               ELSE (IF force THEN <<>> ELSE World_agents_locks(world_id))
                        \o (IF ~force /\ occupied THEN <<>>
                            ELSE World_agents_locks(world_id)))

\* WorldEngine::join_world of an agent that is in no world.
join_world_locks(ids, world_id) ==
    lock_guard(WorldEngineMutex,
               IF world_id \notin ids THEN <<>> ELSE World_agents_locks(world_id))

\* The mutex is held by no thread.
Free(m) == \A t \in Threads : \A i \in DOMAIN lock_threads[t].held : lock_threads[t].held[i] # m

\* A thread that is in no call enters one.
BeginCall(t, steps) ==
    /\ lock_threads[t].todo = <<>>
    /\ steps # <<>>
    /\ lock_threads' = [lock_threads EXCEPT ![t].todo = steps]
    /\ UNCHANGED <<kernelVars, req, resp, asyncVars, supVars, worldVars, fsVars, tunnelVars>>

\* std::mutex::lock: the thread goes on when no thread holds the mutex.
MutexLock(t) ==
    /\ lock_threads[t].todo # <<>>
    /\ Head(lock_threads[t].todo).step = "lock"
    /\ Free(Head(lock_threads[t].todo).mutex)
    /\ lock_threads' = [lock_threads EXCEPT
                           ![t].todo = Tail(@),
                           ![t].held = Append(@, Head(lock_threads[t].todo).mutex)]
    /\ UNCHANGED <<kernelVars, req, resp, asyncVars, supVars, worldVars, fsVars, tunnelVars>>

\* std::mutex::unlock at the end of the scope: the last mutex taken.
MutexUnlock(t) ==
    /\ lock_threads[t].todo # <<>>
    /\ Head(lock_threads[t].todo).step = "unlock"
    /\ lock_threads' = [lock_threads EXCEPT
                           ![t].todo = Tail(@),
                           ![t].held = SubSeq(@, 1, Len(@) - 1)]
    /\ UNCHANGED <<kernelVars, req, resp, asyncVars, supVars, worldVars, fsVars, tunnelVars>>

(***************************************************************************)
(* SpecLocks: two threads that call the STORE handler, the permissions     *)
(* store, the async task manager and the world engine, over an engine with *)
(* no world or one.                                                        *)
(***************************************************************************)
LockWorldId == "lab-0001"
LockWorlds == {{}, {LockWorldId}}

CallStore == \E t \in Threads, scope \in {"global", "agent"} : BeginCall(t, handle_store_locks(scope))
CallPerms == \E t \in Threads : BeginCall(t, get_or_create_locks)
CallSubmit == \E t \in Threads : BeginCall(t, submit_locks)
CallWorker == \E t \in Threads : BeginCall(t, worker_loop_locks)
CallListWorlds == \E t \in Threads, ids \in LockWorlds : BeginCall(t, list_worlds_locks(ids))
CallDestroyWorld ==
    \E t \in Threads, ids \in LockWorlds, force \in BOOLEAN, occupied \in BOOLEAN :
       BeginCall(t, destroy_world_locks(ids, LockWorldId, force, occupied))
CallJoinWorld == \E t \in Threads, ids \in LockWorlds : BeginCall(t, join_world_locks(ids, LockWorldId))
TakeLock == \E t \in Threads : MutexLock(t)
DropLock == \E t \in Threads : MutexUnlock(t)

NextLocks ==
    \/ CallStore
    \/ CallPerms
    \/ CallSubmit
    \/ CallWorker
    \/ CallListWorlds
    \/ CallDestroyWorld
    \/ CallJoinWorld
    \/ TakeLock
    \/ DropLock

SpecLocks == Init /\ [][NextLocks]_vars

Held(t) == {lock_threads[t].held[i] : i \in DOMAIN lock_threads[t].held}

\* C38: locks are leaf locks: a thread that holds the mutex of one store
\* acquires no other mutex while it holds it, and the STORE handler calls
\* EventBus::emit only after it has released the state-store lock.
C38_LeafLocks ==
    /\ \A t \in Threads : Len(lock_threads[t].held) <= 1
    /\ \A t \in Threads : ~({StateStoreMutex, EventBusMutex} \subseteq Held(t))

\* The part about the kernel's stores: a thread that holds the mutex of the
\* state store, the event bus, the permissions store or the async task
\* manager holds no other mutex, so the event of a STORE is emitted with
\* the state-store lock released.
C38_KernelStoresAreLeaves ==
    \A t \in Threads : Held(t) \cap KernelStoreMutexes # {} => Len(lock_threads[t].held) = 1

\* A thread is inside EventBus::emit on behalf of a STORE while the other
\* thread is inside StateStore::store.
C38_Witness ==
    /\ Held(1) = {EventBusMutex}
    /\ lock_threads[1].todo = <<Unlock(EventBusMutex)>>
    /\ Held(2) = {StateStoreMutex}

\* The nesting of the world engine is ordered, engine, world, subsystem, so
\* the threads never wait for each other in a circle: while a call is under
\* way some thread can take its next step.
C38_NoDeadlock ==
    (\E t \in Threads : lock_threads[t].todo # <<>>) =>
        \E t \in Threads : ENABLED (MutexLock(t) \/ MutexUnlock(t))

(***************************************************************************)
(* SpecTunnel: a client that is started, makes its requests one after the  *)
(* other and is shut down at any moment; the subprocess answers a request  *)
(* at any time or never, and a write to its pipe may fall short.           *)
(***************************************************************************)
Prepare == send_request_and_wait_prepare
Send == \E written \in BOOLEAN : send_request_and_wait_send(written)
LoopTest == send_request_and_wait_test
Wait == send_request_and_wait_wait
Answer == \E id \in 1..MaxTunnelRequests : reader_loop(id)

NextTunnel ==
    \/ TunnelClient_init
    \/ Prepare
    \/ Send
    \/ LoopTest
    \/ DeadlinePasses
    \/ Wait
    \/ Answer
    \/ shutdown_stop
    \/ shutdown_close

SpecTunnel == Init /\ [][NextTunnel]_vars

\* The ids of the calls that have returned.
ReturnedIds == {tunnel_returns[i].req_id : i \in DOMAIN tunnel_returns}

\* The call of the id has returned by the path.
ReturnedBy(req_id, path) ==
    \E i \in DOMAIN tunnel_returns :
       tunnel_returns[i].req_id = req_id /\ tunnel_returns[i].path = path

\* C39: send_request_and_wait returns the empty result once its deadline
\* has passed with no reply of the request's id, on every return path it
\* has removed the slot of the request from pending_responses_, and a reply
\* that arrives after the timeout is discarded and is delivered to no other
\* request.
C39_ReturnsTimeoutAndCleansUp ==
    /\ [](\A req_id \in ReturnedIds : req_id \notin DOMAIN pending_responses_)
    /\ [](\A i \in DOMAIN tunnel_returns :
             \A r \in tunnel_returns[i].response : r.id = tunnel_returns[i].req_id)
    /\ [][(tunnel_call.pc = "wait" /\ tunnel_call' = NoCall
              /\ SlotOf(pending_responses_, tunnel_call.req_id) = {}) =>
             /\ tunnel_call.expired
             /\ tunnel_returns' =
                    Append(tunnel_returns, TunnelReturn(tunnel_call.req_id, {}, "timeout"))]_vars
    /\ [][\A id \in tunnel_wire \ tunnel_wire' :
             id \in ReturnedIds => pending_responses_' = pending_responses_]_vars

\* The parts that hold.  A waiting call whose slot has no reply returns
\* only once its deadline has passed, with the empty result and its slot
\* erased; a call that returns with a reply or because the request could
\* not be sent has erased its slot too.
C39_TimeoutReturnsEmpty ==
    /\ [][(tunnel_call.pc = "wait" /\ tunnel_call' = NoCall
              /\ SlotOf(pending_responses_, tunnel_call.req_id) = {}) =>
             /\ tunnel_call.expired
             /\ tunnel_returns' =
                    Append(tunnel_returns, TunnelReturn(tunnel_call.req_id, {}, "timeout"))
             /\ tunnel_call.req_id \notin DOMAIN pending_responses_']_vars
    /\ [](\A req_id \in ReturnedIds :
             ~ReturnedBy(req_id, "stopped") => req_id \notin DOMAIN pending_responses_)

\* A reply is delivered only to the request whose id it carries, and the
\* reply of a request that has timed out is discarded: it leaves
\* pending_responses_ as it is.
C39_LateReplyIsDiscarded ==
    /\ [](\A i \in DOMAIN tunnel_returns :
             \A r \in tunnel_returns[i].response :
                r.id = tunnel_returns[i].req_id /\ tunnel_returns[i].path = "reply")
    /\ [][\A id \in tunnel_wire \ tunnel_wire' :
             ReturnedBy(id, "timeout") => pending_responses_' = pending_responses_]_vars

(***************************************************************************)
(* SpecEmit: agent 2 subscribes to and unsubscribes from kernel event      *)
(* types and names that are no type, and polls; agent 1 sends EMIT         *)
(* requests that carry the names of kernel event types, another name or    *)
(* none.                                                                   *)
(***************************************************************************)
EmitNames == {"STATE_CHANGED", "AGENT_ESCALATED", "my_event"}
EmitData == JsonData("object", "d1", "")

SubscribeEmit == \E name \in EmitNames : SubscribeRequest(2, EventsPayload({}, {}, {name}, {}))
UnsubscribeEmit == \E name \in EmitNames : UnsubscribeRequest(2, EventsPayload({}, {}, {name}, {}))
EmitEmit == \E name \in {{}} \cup {{n} : n \in EmitNames} : EmitRequest(1, EmitPayload(name, {EmitData}))
PollEmit == PollEventsRequest(2, MaxPayload({1}))

NextEmit ==
    \/ SubscribeEmit
    \/ UnsubscribeEmit
    \/ EmitEmit
    \/ PollEmit

SpecEmit == Init /\ [][NextEmit]_vars

\* The types the agent is subscribed to.
SubscribedTypes(agent_id) ==
    IF agent_id \in DOMAIN subscriptions_ THEN subscriptions_[agent_id] ELSE {}

\* The type a name of a SUBSCRIBE or UNSUBSCRIBE request stands for.
StandsFor(name) ==
    IF name \in {"AGENT_SPAWNED", "AGENT_EXITED", "AGENT_PAUSED", "AGENT_RESUMED",
                 "AGENT_RESTARTING", "AGENT_ESCALATED", "MESSAGE_RECEIVED",
                 "STATE_CHANGED", "SYSCALL_BLOCKED", "RESOURCE_WARNING"}
    THEN name ELSE "CUSTOM"

\* The events the step has added to the queue of the agent.
Enqueued(agent_id) ==
    LET before == QueueOf(queues_, agent_id)
        after == QueueOf(queues_', agent_id)
    IN IF Len(after) >= Len(before) /\ SubSeq(after, 1, Len(before)) = before
       THEN SubSeq(after, Len(before) + 1, Len(after))
       ELSE after

\* C40: a name of a SUBSCRIBE or UNSUBSCRIBE request that is not the name
\* of a KernelEventType counts as CUSTOM, and every EMIT request enqueues
\* an event of type CUSTOM whatever name it carries: it adds nothing to the
\* queue of an agent that is subscribed to kernel event types only.
C40_EmitIsAlwaysCustom ==
    [][/\ \A name \in EmitNames :
             SubscribeRequest(2, EventsPayload({}, {}, {name}, {})) =>
                 /\ 2 \in DOMAIN subscriptions_'
                 /\ subscriptions_'[2] = SubscribedTypes(2) \cup {StandsFor(name)}
       /\ \A name \in EmitNames :
             (2 \in DOMAIN subscriptions_
                 /\ UnsubscribeRequest(2, EventsPayload({}, {}, {name}, {}))) =>
                 subscriptions_'[2] = subscriptions_[2] \ {StandsFor(name)}
       /\ req'.op = "EMIT" =>
             \A a \in AgentIds :
                /\ \A i \in DOMAIN Enqueued(a) : Enqueued(a)[i].type = "CUSTOM"
                /\ Len(Enqueued(a)) = IF "CUSTOM" \in SubscribedTypes(a) THEN 1 ELSE 0
                /\ "CUSTOM" \notin SubscribedTypes(a) =>
                       QueueOf(queues_', a) = QueueOf(queues_, a)]_vars

\* Agent 2 is subscribed to STATE_CHANGED and AGENT_ESCALATED only; agent 1
\* has sent an EMIT that carries the name STATE_CHANGED, and the queue of
\* agent 2 is empty.
C40_Witness ==
    /\ SubscribedTypes(2) = {"STATE_CHANGED", "AGENT_ESCALATED"}
    /\ req = Request("EMIT", 1, "STATE_CHANGED")
    /\ resp.op = "EMIT" /\ resp.success
    /\ QueueOf(queues_, 2) = <<>>

\* Agent 2 asked for a name that is no type and holds CUSTOM for it; the
\* EMIT of agent 1 that carries AGENT_ESCALATED has reached it as CUSTOM.
C40_WitnessCustom ==
    /\ SubscribedTypes(2) = {"CUSTOM"}
    /\ req = Request("EMIT", 1, "AGENT_ESCALATED")
    /\ Len(QueueOf(queues_, 2)) = 1
    /\ QueueOf(queues_, 2)[1].type = "CUSTOM"
    /\ QueueOf(queues_, 2)[1].data.custom_type = "AGENT_ESCALATED"

====
